---------------------------- MODULE Spec2Model ----------------------------
(***************************************************************************)
(* A model of the 3dm (Rhino/openNURBS) archive reader of geometria:       *)
(* the chunk sub-stream (chunk.rs), the chunk header decoder, the archive  *)
(* context held by Reader and Chunk, StartSection and the archive decode   *)
(* sequence.                                                               *)
(*                                                                         *)
(* Numbers.  Bytes are 8 bits wide.  A u32 is the tuple of its four bytes,  *)
(* most significant first (0x80400001 is <<128, 64, 0, 1>>), an i64 the    *)
(* tuple of its eight two's-complement bytes, so from_le_bytes and the     *)
(* widening casts (u32 as i64, i32 as i64) are what the program does to    *)
(* the bits.  Stream positions, chunk offsets and chunk lengths are u64    *)
(* in the program; the model keeps them as integers of 0..U64Max with      *)
(* U64Max standing for u64::MAX and i64 for I64Min..I64Max, and the        *)
(* checked and unchecked arithmetic of the program is done against         *)
(* those limits.                                                           *)
(***************************************************************************)
EXTENDS Integers, Sequences, FiniteSets, TLC

VARIABLES
    debug_assertions,   \* the build: TRUE = overflow checks (an overflow panics), FALSE = wraps
    data,               \* the bytes of the in-memory byte source (Cursor)
    position,           \* the byte source's absolute position (Cursor::position)
    version,            \* Reader::version
    chunk_begin,        \* Reader::chunk_begin
    chunks,             \* the live sub-streams, outermost first (each borrows the one before)
    ret,                \* the last call and what it returned
    pc,                 \* where the running decode is
    ops                 \* calls made through the live sub-stream

vars == <<debug_assertions, data, position, version, chunk_begin, chunks, ret, pc, ops>>

-----------------------------------------------------------------------------
(* Bounds *)

\* stands for u64::MAX
U64Max == 1048575
\* calls made through one sub-stream
MaxOps == 3
\* length of the byte source in the sub-stream specification
DataLen == 11

I64Max == U64Max \div 2
I64Min == -I64Max - 1

Min(a, b) == IF a < b THEN a ELSE b
Max(a, b) == IF a < b THEN b ELSE a
Last(s) == s[Len(s)]
Front(s) == SubSeq(s, 1, Len(s) - 1)
\* F(v), with v evaluated once (`let x = v; F(x)`)
Bind(v, F(_)) == CHOOSE y \in {F(x) : x \in {v}} : TRUE

-----------------------------------------------------------------------------
(* Results of calls *)

\* kind: "Ok" | "Err" | "Panic"; val: the Ok value; err: the error; pos: the byte
\* source's position after the call; req: bytes asked of the byte source by a read
Result(kind, val, err, pos, req) ==
    [kind |-> kind, val |-> val, err |-> err, pos |-> pos, req |-> req]
Ok(val, pos) == Result("Ok", val, "-", pos, 0)
Err(err, pos) == Result("Err", 0, err, pos, 0)
Panic(pos) == Result("Panic", 0, "overflow", pos, 0)

\* An unchecked u64 `a + b`: panics in a build with overflow checks, wraps otherwise.
AddU64(a, b) ==
    [panic |-> debug_assertions /\ a + b > U64Max, val |-> (a + b) % (U64Max + 1)]
\* An unchecked u64 `a - b`.
SubU64(a, b) ==
    [panic |-> debug_assertions /\ a < b, val |-> (a - b) % (U64Max + 1)]

\* u64::checked_add / checked_sub: -1 stands for None
checked_add(a, b) == IF a + b > U64Max THEN -1 ELSE a + b
checked_sub(a, b) == IF a < b THEN -1 ELSE a - b
\* `if 0 <= value { x.checked_add(value as u64) } else { x.checked_sub(value.unsigned_abs()) }`
checked_add_signed(a, v) == IF 0 <= v THEN checked_add(a, v) ELSE checked_sub(a, -v)

-----------------------------------------------------------------------------
(* The byte source: std::io::Cursor over the data *)

CursorSeek(pos, from, v) ==
    IF from = "Start" THEN Ok(v, v)
    ELSE LET base == IF from = "End" THEN Len(data) ELSE pos
             t == base + v
         IN  IF t < 0 \/ t > U64Max THEN Err("InvalidInput", pos) ELSE Ok(t, t)

CursorRead(pos, n) ==
    LET k == Min(n, Max(0, Len(data) - pos))
    IN  Result("Ok", k, "-", pos + k, n)

-----------------------------------------------------------------------------
(* Chunk: a sub-stream of its parent stream *)

NoBegin == [typecode |-> <<0, 0, 0, 0>>, value |-> <<0, 0, 0, 0, 0, 0, 0, 0>>,
            initial_position |-> 0]

MkChunk(offset, length, ver, begin) ==
    [offset |-> offset, length |-> length, version |-> ver, begin |-> begin]

ChunkNewFails_m(length) == 1 >= length
\* Chunk::new: `if 0 == length { Err(ChunkError::EmptyChunk) }`
ChunkNewFails(length) == 0 = length

start_position(c) == c.offset

end_position_m(c) == AddU64(c.offset, c.length)
\* self.offset + (self.length - 1), unchecked
end_position(c) == AddU64(c.offset, c.length - 1)

RECURSIVE Seek(_, _, _, _)
\* <Chunk as Seek>::seek on the innermost sub-stream of cs; for cs = <<>> the byte source's
Seek(cs, pos, from, v) ==
    IF cs = <<>> THEN CursorSeek(pos, from, v)
    ELSE
    LET c == Last(cs)
        parent == Front(cs)
        \* match final_position { Some(value) => ..., None => InvalidInput }
        SeekTo(final) ==
            IF final = -1 THEN Err("InvalidInput", pos)
            ELSE IF final >= start_position(c)
                 THEN LET Moved(s) ==
                              IF s.kind # "Ok" THEN s
                              ELSE Ok(final - start_position(c), s.pos)
                      IN  Bind(Seek(parent, pos, "Start", final), Moved)
                 ELSE Err("OutOfBounds", pos)
        FromEnd(endp) ==
            IF endp.panic THEN Panic(pos) ELSE SeekTo(checked_add_signed(endp.val, v))
        \* self.stream.stream_position()?
        FromCurrent(cur) ==
            IF cur.kind # "Ok" THEN cur ELSE SeekTo(checked_add_signed(cur.val, v))
    IN  CASE from = "Start" -> SeekTo(checked_add(start_position(c), v))
          [] from = "End" -> Bind(end_position(c), FromEnd)
          [] OTHER -> Bind(Seek(parent, pos, "Current", 0), FromCurrent)

\* Seek::stream_position, the provided method: self.seek(SeekFrom::Current(0))
stream_position(cs, pos) == Seek(cs, pos, "Current", 0)

\* Chunk::remainder_length
remainder_length(cs, pos) ==
    LET c == Last(cs)
        endp == end_position(c)
        Remainder(current_position) ==
            LET rest == SubU64(c.length, current_position.val)
            IN  IF current_position.kind # "Ok" THEN current_position
                ELSE IF endp.panic THEN Panic(current_position.pos)
                ELSE IF current_position.val < endp.val
                     THEN IF rest.panic THEN Panic(current_position.pos)
                          ELSE Ok(rest.val, current_position.pos)
                     ELSE Ok(0, current_position.pos)
    IN  Bind(stream_position(cs, pos), Remainder)

RECURSIVE Read(_, _, _)
\* <Chunk as Read>::read with a buffer of n bytes; for cs = <<>> the byte source's
Read(cs, pos, n) ==
    IF cs = <<>> THEN CursorRead(pos, n)
    ELSE
    LET Limited(rl) ==
            LET length == Min(rl.val, n)
                Asked(r) == IF Len(cs) = 1 THEN [r EXCEPT !.req = length] ELSE r
            IN  IF rl.kind # "Ok" THEN rl
                ELSE Bind(Read(Front(cs), rl.pos, length), Asked)
    IN  Bind(remainder_length(cs, pos), Limited)

-----------------------------------------------------------------------------
(* The sub-stream specification: one Chunk over a Cursor, called in any order *)

OffsetSet == {0, 1, 3, U64Max}
LengthSet == {0, 1, 2, 9, U64Max}
PositionSet == {0, 1, 9, 10, U64Max}
StartSet == {0, 1, 2, 9, U64Max}
SignedSet == {I64Min, -9, -1, 0, 1, 2, I64Max}
BufSet == {0, 1, 10}

\* op: the call; from, arg: its arguments (for new: arg = length, off = offset);
\* kind, val, err: what it returned; pre: the byte source's position before the call;
\* req: the bytes a read asked of the byte source
NoRet == [op |-> "none", from |-> "-", arg |-> 0, off |-> 0, kind |-> "-", val |-> 0,
          err |-> "-", pre |-> 0, req |-> 0]

Call(op, from, arg, r) ==
    [op |-> op, from |-> from, arg |-> arg, off |-> 0, kind |-> r.kind, val |-> r.val,
     err |-> r.err, pre |-> position, req |-> r.req]

Live == chunks # <<>> /\ ret.kind # "Panic"

InitChunk ==
    /\ debug_assertions \in BOOLEAN
    /\ data = [i \in 1..DataLen |-> i - 1]
    /\ position \in PositionSet
    /\ version = "V1"
    /\ chunk_begin = NoBegin
    /\ chunks = <<>>
    /\ ret = NoRet
    /\ pc = "idle"
    /\ ops = 0

\* Chunk::new(&mut stream, offset, length, FileVersion::V1, Begin::default())
ChunkNew(offset, length) ==
    /\ pc = "idle"
    /\ IF ChunkNewFails(length)
       THEN /\ chunks' = <<>>
            /\ ret' = [Call("new", "-", length, Err("EmptyChunk", position))
                           EXCEPT !.off = offset]
            /\ pc' = "closed"
       ELSE /\ chunks' = <<MkChunk(offset, length, "V1", NoBegin)>>
            /\ ret' = [Call("new", "-", length, Ok(0, position)) EXCEPT !.off = offset]
            /\ pc' = "open"
    /\ UNCHANGED <<debug_assertions, data, position, version, chunk_begin, ops>>

ChunkSeek(from, v) ==
    /\ Live
    /\ ops < MaxOps
    /\ \E r \in {Seek(chunks, position, from, v)} :
           /\ position' = r.pos
           /\ ret' = Call("seek", from, v, r)
    /\ ops' = ops + 1
    /\ UNCHANGED <<debug_assertions, data, version, chunk_begin, chunks, pc>>

ChunkRead(n) ==
    /\ Live
    /\ ops < MaxOps
    /\ \E r \in {Read(chunks, position, n)} :
           /\ position' = r.pos
           /\ ret' = Call("read", "-", n, r)
    /\ ops' = ops + 1
    /\ UNCHANGED <<debug_assertions, data, version, chunk_begin, chunks, pc>>

ChunkRemainderLength ==
    /\ Live
    /\ ops < MaxOps
    /\ \E r \in {remainder_length(chunks, position)} :
           /\ position' = r.pos
           /\ ret' = Call("remainder_length", "-", 0, r)
    /\ ops' = ops + 1
    /\ UNCHANGED <<debug_assertions, data, version, chunk_begin, chunks, pc>>

\* the sub-stream goes out of scope: Chunk has no Drop, the cursor stays where it is
ChunkDrop ==
    /\ Live
    /\ chunks' = <<>>
    /\ ret' = Call("drop", "-", 0, Ok(0, position))
    /\ pc' = "closed"
    /\ UNCHANGED <<debug_assertions, data, position, version, chunk_begin, ops>>

NextChunk ==
    \/ \E o \in OffsetSet, l \in LengthSet : ChunkNew(o, l)
    \/ \E v \in StartSet : ChunkSeek("Start", v)
    \/ \E v \in SignedSet : ChunkSeek("End", v)
    \/ \E v \in SignedSet : ChunkSeek("Current", v)
    \/ \E n \in BufSet : ChunkRead(n)
    \/ ChunkRemainderLength
    \/ ChunkDrop

SpecChunk == InitChunk /\ [][NextChunk]_vars

-----------------------------------------------------------------------------
(* Claims about the sub-stream, checked under SpecChunk *)

TheChunk == chunks[1]
EndRepresentable == TheChunk.offset + TheChunk.length <= U64Max
\* the position a seek aims at, as a number: base + value
SeekBase == CASE ret.from = "Start" -> TheChunk.offset
              [] ret.from = "End" -> TheChunk.offset + (TheChunk.length - 1)
              [] OTHER -> ret.pre
SeekTarget == SeekBase + ret.arg

\* C1: on a sub-stream with offset o and length L > 0 (o + L representable),
\* seek(SeekFrom::End(1)) succeeds, returns L and leaves the parent at o + L,
\* whatever calls were made before and wherever the parent cursor was.
C1_SeekEndOneClosesChunk ==
    (pc = "open" /\ ret.op = "seek" /\ ret.from = "End" /\ ret.arg = 1 /\ EndRepresentable)
        => /\ ret.kind = "Ok"
           /\ ret.val = TheChunk.length
           /\ position = TheChunk.offset + TheChunk.length

\* C1 witness: End(1) after two earlier calls, from a cursor left before the offset
C1_Witness ==
    /\ pc = "open" /\ ret.op = "seek" /\ ret.from = "End" /\ ret.arg = 1
    /\ ops = 3 /\ ret.pre < TheChunk.offset
    /\ ret.kind = "Ok" /\ position = TheChunk.offset + TheChunk.length

\* C2 (as claimed): every successful seek returns a relative position in [0, length]
\* and leaves the parent within [offset, offset + length]; no read delivers a byte
\* at or beyond offset + length.
C2_SeeksAndReadsStayInside ==
    (pc = "open" /\ ret.kind = "Ok" /\ EndRepresentable)
        => /\ ret.op = "seek" =>
                /\ ret.val \in 0..TheChunk.length
                /\ position \in TheChunk.offset..(TheChunk.offset + TheChunk.length)
           /\ (ret.op = "read" /\ ret.val > 0) =>
                ret.pre + ret.val <= TheChunk.offset + TheChunk.length

\* C3 (as claimed): remainder_length is o + L - p for o <= p <= o + L and fails with
\* OutOfBounds for p < o; a read with an n-byte buffer asks the parent for exactly
\* min(n, remainder_length) bytes.
C3_RemainderLength ==
    (pc = "open" /\ EndRepresentable /\ ret.pre <= TheChunk.offset + TheChunk.length)
        => /\ (ret.op = "remainder_length" /\ ret.pre >= TheChunk.offset) =>
                (ret.kind = "Ok" /\ ret.val = TheChunk.offset + TheChunk.length - ret.pre)
           /\ (ret.op = "remainder_length" /\ ret.pre < TheChunk.offset) =>
                (ret.kind = "Err" /\ ret.err = "OutOfBounds")
           /\ (ret.op = "read" /\ ret.pre >= TheChunk.offset) =>
                (ret.kind = "Ok" /\
                 ret.req = Min(ret.arg, TheChunk.offset + TheChunk.length - ret.pre))

\* C4 (as claimed): a seek whose target is not representable in u64 fails with
\* InvalidInput, one whose target is representable but below the offset fails with
\* OutOfBounds, and both leave the parent's position unchanged.
C4_SeekErrors ==
    (pc = "open" /\ ret.op = "seek")
        => /\ (SeekTarget < 0 \/ SeekTarget > U64Max) =>
                (ret.kind = "Err" /\ ret.err = "InvalidInput" /\ position = ret.pre)
           /\ (SeekTarget >= 0 /\ SeekTarget <= U64Max /\ SeekTarget < TheChunk.offset) =>
                (ret.kind = "Err" /\ ret.err = "OutOfBounds" /\ position = ret.pre)

\* C8: Chunk::new fails with EmptyChunk exactly when length = 0; for length > 0 it
\* succeeds with the given offset and length and does not move the parent's cursor.
C8_ChunkNew ==
    ret.op = "new"
        => /\ (ret.kind = "Err" /\ ret.err = "EmptyChunk") <=> ret.arg = 0
           /\ ret.arg = 0 => chunks = <<>>
           /\ ret.arg > 0 =>
                /\ ret.kind = "Ok"
                /\ Len(chunks) = 1
                /\ TheChunk.offset = ret.off /\ TheChunk.length = ret.arg
           /\ position = ret.pre

\* C8 witness: a one-byte sub-stream created at offset 3 with the cursor at 10
C8_Witness ==
    /\ ret.op = "new" /\ ret.kind = "Ok" /\ ret.arg = 1 /\ ret.off = 3
    /\ position = 10 /\ Len(chunks) = 1

-----------------------------------------------------------------------------
(* Numbers decoded from the byte source *)

RECURSIVE BitAnd8(_, _)
\* u8 & u8
BitAnd8(a, b) ==
    IF a = 0 \/ b = 0 THEN 0
    ELSE (a % 2) * (b % 2) + 2 * BitAnd8(a \div 2, b \div 2)

\* u32 & u32
BitAnd32(a, b) == [i \in 1..4 |-> BitAnd8(a[i], b[i])]

from_be_bytes(bytes) == bytes
\* {u32, i32, i64}::from_le_bytes: the first byte of the stream is the least significant
from_le_bytes(bytes) == [i \in 1..Len(bytes) |-> bytes[Len(bytes) + 1 - i]]

\* `u32 as i64`
ZeroExtend(u) == <<0, 0, 0, 0>> \o u
\* `i32 as i64`
SignExtend(i) == (IF i[1] >= 128 THEN <<255, 255, 255, 255>> ELSE <<0, 0, 0, 0>>) \o i

\* an i64 that is a small non-negative number, as that number
IsSmall(v) == v[1] = 0 /\ v[2] = 0 /\ v[3] = 0 /\ v[4] = 0 /\ v[5] = 0 /\ v[6] < 16
ToInt(v) == (v[6] * 256 + v[7]) * 256 + v[8]
\* an i64 that is negative
IsNegative(v) == v[1] >= 128

-----------------------------------------------------------------------------
(* FileVersion (version.rs) and the typecodes *)

VersionSet == {"V1", "V2", "V3", "V4", "V50", "V60", "V70"}

\* a typecode written as in the source, 0xB3B2B1B0
TC(b3, b2, b1, b0) == <<b3, b2, b1, b0>>

SHORT == TC(128, 0, 0, 0)
TABLE == TC(16, 0, 0, 0)
COMMENTBLOCK == TC(0, 0, 0, 1)
ENDOFTABLE == TC(255, 255, 255, 255)
RGB == TC(128, 64, 0, 1)
RGBDISPLAY == TC(128, 64, 0, 6)
PROPERTIES_OPENNURBS_VERSION == TC(160, 0, 0, 38)
OBJECT_RECORD_TYPE == TC(130, 0, 0, 113)
SUMMARY == TC(2, 0, 0, 19)
BITMAPPREVIEW == TC(2, 0, 0, 20)
UNIT_AND_TOLERANCES == TC(0, 128, 0, 49)
VIEWPORT == TC(2, 0, 0, 21)
LAYER == TC(0, 64, 0, 16)
RENDERMESHPARAMS == TC(0, 64, 0, 32)
CURRENTLAYER == TC(128, 64, 0, 37)
ANNOTATION_SETTINGS == TC(0, 8, 0, 1)
NOTES == TC(2, 0, 0, 13)
NAMED_CPLANE == TC(2, 0, 0, 22)
NAMED_VIEW == TC(2, 0, 0, 23)
PROPERTIES_TABLE == TC(16, 0, 0, 20)
SETTINGS_TABLE == TC(16, 0, 0, 21)

size_of_length_m(ver) == IF ver \in {"V1", "V2", "V3", "V4", "V50"} THEN 4 ELSE 8
\* Begin::size_of_length, Value::size
size_of_length(ver) == IF ver \in {"V1", "V2", "V3", "V4"} THEN 4 ELSE 8

is_unsigned_m(typecode) == BitAnd32(SHORT, typecode) = <<0, 0, 0, 0>>
\* Begin::is_unsigned, Value::is_unsigned
is_unsigned(typecode) ==
    \/ BitAnd32(SHORT, typecode) = <<0, 0, 0, 0>>
    \/ RGB = typecode
    \/ RGBDISPLAY = typecode
    \/ PROPERTIES_OPENNURBS_VERSION = typecode
    \/ OBJECT_RECORD_TYPE = typecode

-----------------------------------------------------------------------------
(* Deserializer: Reader and Chunk *)

\* Deserializer::version of the innermost live deserializer
CurVersion(cs, ver) == IF cs = <<>> THEN ver ELSE Last(cs).version
\* Deserializer::chunk_begin
CurBegin(cs, cb) == IF cs = <<>> THEN cb ELSE Last(cs).begin

set_version_m(cs, ver, v) ==
    [chunks |-> [i \in 1..Len(cs) |-> [cs[i] EXCEPT !.version = v]], version |-> v]
\* Deserializer::set_version: Reader and Chunk each write their own field
set_version(cs, ver, v) ==
    IF cs = <<>> THEN [chunks |-> cs, version |-> v]
    ELSE [chunks |-> [cs EXCEPT ![Len(cs)].version = v], version |-> ver]

set_chunk_begin_m(cs, cb, b) == [chunks |-> cs, chunk_begin |-> b]
\* Deserializer::set_chunk_begin
set_chunk_begin(cs, cb, b) ==
    IF cs = <<>> THEN [chunks |-> cs, chunk_begin |-> b]
    ELSE [chunks |-> [cs EXCEPT ![Len(cs)].begin = b], chunk_begin |-> cb]

\* the bytes of the byte source from absolute position pos
Bytes(pos, n) == [i \in 1..n |-> data[pos + i]]

RECURSIVE ReadExact(_, _, _, _)
\* Read::read_exact (the default loop over read); val is where the bytes start
ReadExact(cs, start, pos, n) ==
    IF n = 0 THEN Ok(start, pos)
    ELSE LET Filled(r) ==
                 IF r.kind # "Ok" THEN r
                 ELSE IF r.val = 0 THEN Err("UnexpectedEof", r.pos)
                 ELSE ReadExact(cs, start, r.pos, n - r.val)
         IN  Bind(Read(cs, pos, n), Filled)

\* <int>::deserialize: read_exact into size_of::<Self>() bytes, from_le_bytes
NumResult(kind, num, err, pos) == [kind |-> kind, num |-> num, err |-> err, pos |-> pos]
NumDeserialize(cs, pos, n) ==
    LET Decoded(r) ==
            IF r.kind # "Ok" THEN NumResult(r.kind, <<>>, r.err, r.pos)
            ELSE NumResult("Ok", from_le_bytes(Bytes(r.val, n)), "-", r.pos)
    IN  Bind(ReadExact(cs, pos, pos, n), Decoded)

\* the fields of a 4-byte length field, widened
Widen(typecode, field) == IF is_unsigned(typecode) THEN ZeroExtend(field) ELSE SignExtend(field)

BeginResult(kind, begin, err, pos) == [kind |-> kind, begin |-> begin, err |-> err, pos |-> pos]
\* Begin::deserialize, up to and without set_chunk_begin
BeginDecode(cs, pos, ver) ==
    LET w == size_of_length(ver)
        Typecode(t) ==
            LET Length(f) ==
                    LET value == IF w = 8 THEN f.num ELSE Widen(t.num, f.num)
                        Position(sp) ==
                            IF sp.kind # "Ok" THEN BeginResult(sp.kind, NoBegin, sp.err, sp.pos)
                            ELSE BeginResult("Ok",
                                             [typecode |-> t.num, value |-> value,
                                              initial_position |-> sp.val],
                                             "-", sp.pos)
                    IN  IF f.kind # "Ok" THEN BeginResult(f.kind, NoBegin, f.err, f.pos)
                        ELSE Bind(stream_position(cs, f.pos), Position)
            IN  IF t.kind # "Ok" THEN BeginResult(t.kind, NoBegin, t.err, t.pos)
                ELSE Bind(NumDeserialize(cs, t.pos, w), Length)
    IN  Bind(NumDeserialize(cs, pos, 4), Typecode)

-----------------------------------------------------------------------------
(* Specification of the chunk header decode and the archive context:       *)
(* Begin::deserialize on a Reader and through sub-streams, set_version,    *)
(* sub-streams created from the decoded header and released.               *)

\* nesting depth of sub-streams
MaxDepth == 2
\* calls made in one behaviour
MaxSteps == 5
\* bytes after the two headers of the byte source
PadLen == 4

\* length fields as they lie in the byte source (least significant byte first)
Field4(k) == CASE k = 1 -> <<0, 0, 0, 0>>
               [] k = 2 -> <<20, 0, 0, 0>>
               [] k = 3 -> <<255, 255, 255, 255>>
               [] OTHER -> <<0, 0, 0, 128>>
Field8(k) == CASE k = 1 -> <<0, 0, 0, 0, 0, 0, 0, 0>>
               [] k = 2 -> <<20, 0, 0, 0, 0, 0, 0, 0>>
               [] k = 3 -> <<255, 255, 255, 255, 255, 255, 255, 255>>
               [] OTHER -> <<0, 0, 0, 128, 0, 0, 0, 0>>
FieldSet == 1..4
\* a chunk header as it lies in an archive of version ver
Header(ver, typecode, k) ==
    from_le_bytes(typecode) \o (IF size_of_length(ver) = 8 THEN Field8(k) ELSE Field4(k))

OuterTypecodes == {COMMENTBLOCK, CURRENTLAYER, RGB, PROPERTIES_TABLE}
InnerTypecodes == {PROPERTIES_OPENNURBS_VERSION, TC(128, 0, 0, 2), SUMMARY}
SetVersionSet == {"V2", "V50"}

NoBRet == [op |-> "none", depth |-> 0, kind |-> "-", err |-> "-", pre |-> 0, ver |-> "V1",
           begin |-> NoBegin, sub_version |-> "V1", sub_begin |-> NoBegin]
BRet(op, kind, err, begin) ==
    [op |-> op, depth |-> Len(chunks), kind |-> kind, err |-> err, pre |-> position,
     ver |-> CurVersion(chunks, version), begin |-> begin,
     sub_version |-> CurVersion(chunks, version), sub_begin |-> CurBegin(chunks, chunk_begin)]

InitBegin ==
    /\ debug_assertions \in BOOLEAN
    /\ version \in VersionSet
    /\ \E t1 \in OuterTypecodes, k1 \in FieldSet, t2 \in InnerTypecodes, k2 \in FieldSet :
           data = Header(version, t1, k1) \o Header(version, t2, k2) \o [i \in 1..PadLen |-> i]
    /\ position = 0
    /\ chunk_begin = NoBegin
    /\ chunks = <<>>
    /\ ret = NoBRet
    /\ pc = "run"
    /\ ops = 0

Running == pc = "run" /\ ops < MaxSteps

\* Begin::deserialize(&mut deserializer) on the innermost live deserializer
BeginDeserialize ==
    /\ Running
    /\ \E r \in {BeginDecode(chunks, position, CurVersion(chunks, version))} :
       LET ctx == set_chunk_begin(chunks, chunk_begin, r.begin)
       IN  /\ position' = r.pos
           /\ ret' = BRet("begin", r.kind, r.err, r.begin)
           /\ IF r.kind = "Ok"
              THEN chunks' = ctx.chunks /\ chunk_begin' = ctx.chunk_begin
              ELSE UNCHANGED <<chunks, chunk_begin>>
           /\ pc' = IF r.kind = "Panic" THEN "panic" ELSE pc
    /\ ops' = ops + 1
    /\ UNCHANGED <<debug_assertions, data, version>>

\* deserializer.set_version(v) on the innermost live deserializer
SetVersion(v) ==
    /\ Running
    /\ LET ctx == set_version(chunks, version, v)
       IN  chunks' = ctx.chunks /\ version' = ctx.version
    /\ ret' = BRet("set_version", "Ok", "-", NoBegin)
    /\ ops' = ops + 1
    /\ UNCHANGED <<debug_assertions, data, position, chunk_begin, pc>>

\* a sub-stream over the innermost live deserializer, created from the header it
\* decoded last: Chunk::new(deserializer, begin.initial_position, begin.value as u64,
\* deserializer.version(), begin)
ChunkOpen ==
    /\ Running
    /\ Len(chunks) < MaxDepth
    /\ ret.op = "begin" /\ ret.kind = "Ok"
    /\ IsSmall(ret.begin.value)
    /\ LET length == ToInt(ret.begin.value)
       IN  IF ChunkNewFails(length)
           THEN /\ ret' = BRet("open", "Err", "EmptyChunk", ret.begin)
                /\ UNCHANGED chunks
           ELSE /\ ret' = BRet("open", "Ok", "-", ret.begin)
                /\ chunks' = Append(chunks, MkChunk(ret.begin.initial_position, length,
                                                    CurVersion(chunks, version), ret.begin))
    /\ ops' = ops + 1
    /\ UNCHANGED <<debug_assertions, data, position, version, chunk_begin, pc>>

\* chunk.seek(SeekFrom::End(1)).unwrap()
ChunkSeekEnd ==
    /\ Running
    /\ chunks # <<>>
    /\ \E r \in {Seek(chunks, position, "End", 1)} :
           /\ position' = r.pos
           /\ ret' = BRet("seek_end", r.kind, r.err, NoBegin)
           /\ pc' = IF r.kind = "Ok" THEN pc ELSE "panic"
    /\ ops' = ops + 1
    /\ UNCHANGED <<debug_assertions, data, version, chunk_begin, chunks>>

\* the innermost sub-stream is released (goes out of scope)
ChunkRelease ==
    /\ Running
    /\ chunks # <<>>
    /\ chunks' = Front(chunks)
    /\ ret' = BRet("release", "Ok", "-", NoBegin)
    /\ ops' = ops + 1
    /\ UNCHANGED <<debug_assertions, data, position, version, chunk_begin, pc>>

NextBegin ==
    \/ BeginDeserialize
    \/ \E v \in SetVersionSet : SetVersion(v)
    \/ ChunkOpen
    \/ ChunkSeekEnd
    \/ ChunkRelease

SpecBegin == InitBegin /\ [][NextBegin]_vars

-----------------------------------------------------------------------------
(* Claims about the chunk header decode and the context, checked under SpecBegin *)

RECURSIVE SumOffsets(_)
\* the absolute position of position 0 of the innermost live sub-stream
SumOffsets(cs) == IF cs = <<>> THEN 0 ELSE Last(cs).offset + SumOffsets(Front(cs))

BeginReturned == ret.op = "begin" /\ ret.kind = "Ok"
\* width of the length field by archive version, as the claim states it
ClaimedWidth == IF ret.ver \in {"V50", "V60", "V70"} THEN 8 ELSE 4
\* zero-extension by typecode, as the claim states it
ClaimedUnsigned ==
    \/ ret.begin.typecode[1] < 128
    \/ ret.begin.typecode \in {RGB, RGBDISPLAY, PROPERTIES_OPENNURBS_VERSION, OBJECT_RECORD_TYPE}
\* typecode and value of the returned header against the bytes at the place of the call
DecodedAsClaimed ==
    /\ position = ret.pre + 4 + ClaimedWidth
    /\ \A i \in 1..4 : ret.begin.typecode[5 - i] = data[ret.pre + i]
    /\ \A i \in 1..ClaimedWidth : ret.begin.value[9 - i] = data[ret.pre + 4 + i]
    /\ ClaimedWidth = 4 =>
           \A i \in 1..4 : ret.begin.value[i] =
               IF ClaimedUnsigned \/ data[ret.pre + 8] < 128 THEN 0 ELSE 255

\* C5 (as claimed): a header decode reads a u32 typecode and a length field of 8 bytes
\* at V50, V60, V70 and of 4 bytes at V1..V4, zero-extended when the typecode has no
\* SHORT bit or is one of the four exceptions and sign-extended otherwise, and the
\* recorded header-end position is the absolute stream position after the length field.
C5_AsClaimed ==
    BeginReturned => DecodedAsClaimed /\ ret.begin.initial_position = position

\* C5 (amended): the same widths and extensions, and the recorded header-end position
\* is the decoding deserializer's own stream position after the length field: the
\* absolute position on a Reader, the position relative to the sub-stream's start when
\* the header is decoded through a Chunk.
C5_HeaderDecode ==
    BeginReturned =>
        DecodedAsClaimed /\ ret.begin.initial_position = position - SumOffsets(chunks)

\* C5 witness: a header with a SHORT typecode and a negative 4-byte field, decoded
\* through a sub-stream
C5_Witness ==
    /\ BeginReturned
    /\ ret.depth = 1
    /\ ret.ver = "V3"
    /\ ret.begin.typecode = TC(128, 0, 0, 2)
    /\ IsNegative(ret.begin.value)
    /\ ret.begin.initial_position < position

\* C6: after a successful Begin::deserialize on a deserializer, that deserializer's
\* chunk_begin() is the header just returned (typecode, value and header-end position).
C6_ChunkBeginIsReturned ==
    BeginReturned => CurBegin(chunks, chunk_begin) = ret.begin

\* C6 witness: a header decoded through a sub-stream that was created with another header
C6_Witness ==
    /\ BeginReturned
    /\ ret.depth = 1
    /\ ret.sub_begin # ret.begin
    /\ chunk_begin # ret.begin
    /\ ret.begin.typecode = PROPERTIES_OPENNURBS_VERSION

-----------------------------------------------------------------------------
(* StartSection (start_section.rs) *)

\* an i64 as a number: exact for the values within the model's u64, the limit
\* of the model's i64 for the others
IsSmallNegative(v) ==
    v[1] = 255 /\ v[2] = 255 /\ v[3] = 255 /\ v[4] = 255 /\ v[5] = 255 /\ v[6] >= 240
AsI64(v) ==
    IF IsSmall(v) THEN ToInt(v)
    ELSE IF IsSmallNegative(v) THEN ToInt(v) - 16777216
    ELSE IF IsNegative(v) THEN I64Min ELSE I64Max

\* Value::deserialize: the signedness of a 4-byte value is taken from the typecode of
\* the deserializer's current chunk header, deserializer.chunk_begin().typecode
ValueDeserialize(cs, pos, ver, cb) ==
    LET Widened(f) ==
            IF f.kind # "Ok" \/ size_of_length(ver) = 8 THEN f
            ELSE [f EXCEPT !.num = Widen(cb.typecode, f.num)]
    IN  Bind(NumDeserialize(cs, pos, size_of_length(ver)), Widened)

\* the typecodes StartSection skips at V1
PreambleSet ==
    {SUMMARY, BITMAPPREVIEW, UNIT_AND_TOLERANCES, VIEWPORT, LAYER, RENDERMESHPARAMS,
     CURRENTLAYER, ANNOTATION_SETTINGS, NOTES, NAMED_CPLANE, NAMED_VIEW}

is_table_m(typecode) == TABLE = typecode
\* typecode::TABLE == typecode & 0xFFFF0000
is_table(typecode) == TABLE = BitAnd32(typecode, <<255, 255, 0, 0>>)

ScanResult(kind, err, pos, ver) == [kind |-> kind, err |-> err, pos |-> pos, version |-> ver]

RECURSIVE Scan(_, _, _)
\* the loop of StartSection::deserialize at V1, from position pos
Scan(cs, pos, cb) ==
    LET Typecode(t) ==
            LET Skip(value) ==
                    LET Skipped(s) ==
                            IF s.kind # "Ok" THEN ScanResult("Panic", s.err, s.pos, "V1")
                            ELSE Scan(cs, s.pos, cb)
                    IN  IF value.kind # "Ok" THEN ScanResult(value.kind, value.err, value.pos, "V1")
                        ELSE Bind(Seek(cs, value.pos, "Current", AsI64(value.num)), Skipped)
            IN  IF t.kind # "Ok" THEN ScanResult(t.kind, t.err, t.pos, "V1")
                ELSE IF t.num \in PreambleSet
                     THEN Bind(ValueDeserialize(cs, t.pos, "V1", cb), Skip)
                     ELSE ScanResult("Ok", "-", t.pos, IF is_table(t.num) THEN "V2" ELSE "V1")
    IN  Bind(NumDeserialize(cs, pos, 4), Typecode)

Rewinds_m(r) == r.kind = "Ok"
\* `if Version::V1 == deserializer.version()` after the scan r: seek(backup_position)
Rewinds(r) == r.kind = "Ok" /\ r.version = "V1"

\* StartSection::deserialize
StartSection(cs, pos, ver, cb) ==
    LET Scanned(backup) ==
            LET Restore(r) ==
                    LET Restored(s) ==
                            IF s.kind # "Ok" THEN ScanResult("Panic", s.err, s.pos, r.version)
                            ELSE ScanResult("Ok", "-", s.pos, r.version)
                    IN  IF ~Rewinds(r) THEN r
                        ELSE Bind(Seek(cs, r.pos, "Start", backup.val), Restored)
            IN  IF backup.kind # "Ok" THEN ScanResult("Panic", backup.err, backup.pos, ver)
                ELSE IF ver = "V1" THEN Bind(Scan(cs, backup.pos, cb), Restore)
                ELSE ScanResult("Ok", "-", backup.pos, ver)
    IN  Bind(stream_position(cs, pos), Scanned)

-----------------------------------------------------------------------------
(* Specification of StartSection::deserialize on a Reader *)

\* chunks before the typecode that ends the scan
MaxPreamble == 2
\* bytes of the byte source after that typecode
TailLen == 2

Zeros(n) == [i \in 1..n |-> 0]

\* a chunk of the preamble as it lies in a V1 archive: typecode, 4-byte value, payload.
\* len -1 is a value of 0xFFFFFFFF with no payload
PreambleChunk(c) ==
    from_le_bytes(c.typecode) \o
    (IF c.len = -1 THEN <<255, 255, 255, 255>> ELSE <<c.len, 0, 0, 0>> \o Zeros(c.len))

RECURSIVE Preamble(_)
Preamble(cseq) ==
    IF cseq = <<>> THEN <<>> ELSE PreambleChunk(cseq[1]) \o Preamble(SubSeq(cseq, 2, Len(cseq)))

PreambleTypecodes == {SUMMARY, CURRENTLAYER, NAMED_VIEW}
PreambleLens == {0, 8, -1}
PreambleChunks == [typecode : PreambleTypecodes, len : PreambleLens]
\* the typecodes that end the scan; <<>> is a byte source that ends there
EndTypecodes ==
    {<<>>, TC(0, 0, 0, 0), COMMENTBLOCK, TABLE, PROPERTIES_TABLE, SETTINGS_TABLE, ENDOFTABLE,
     TC(16, 1, 0, 0), TC(48, 0, 0, 0)}
StartPositions == {0, 5}
StartVersions == {"V1", "V2", "V50"}

NoSRet == [op |-> "none", kind |-> "-", err |-> "-", pre |-> 0, ver |-> "V1"]

InitStart ==
    /\ debug_assertions \in BOOLEAN
    /\ version \in StartVersions
    /\ position \in StartPositions
    /\ \E n \in 0..MaxPreamble :
       \E cseq \in [1..n -> PreambleChunks], t \in EndTypecodes :
           data = Zeros(position) \o Preamble(cseq) \o from_le_bytes(t) \o Zeros(TailLen)
    /\ chunk_begin = NoBegin
    /\ chunks = <<>>
    /\ ret = NoSRet
    /\ pc = "StartSection"
    /\ ops = 0

\* StartSection::deserialize(&mut deserializer)
StartSectionDeserialize ==
    /\ pc = "StartSection"
    /\ \E r \in {StartSection(chunks, position, CurVersion(chunks, version),
                              CurBegin(chunks, chunk_begin))} :
       LET ctx == set_version(chunks, version, r.version)
       IN  /\ position' = r.pos
           /\ version' = ctx.version
           /\ chunks' = ctx.chunks
           /\ ret' = [op |-> "start_section", kind |-> r.kind, err |-> r.err,
                      pre |-> position, ver |-> CurVersion(chunks, version)]
           /\ pc' = CASE r.kind = "Ok" -> "done" [] r.kind = "Err" -> "failed" [] OTHER -> "panic"
    /\ UNCHANGED <<debug_assertions, data, chunk_begin, ops>>

NextStart == StartSectionDeserialize

SpecStart == InitStart /\ [][NextStart]_vars

-----------------------------------------------------------------------------
(* Claim about StartSection, checked under SpecStart *)

U32At(p) == <<data[p + 4], data[p + 3], data[p + 2], data[p + 1]>>

RECURSIVE FirstOutside(_)
\* where the first typecode outside the preamble set lies when the chunks from p on are
\* skipped by their values (p itself when the byte source ends before)
FirstOutside(p) ==
    IF p + 8 > Len(data) THEN p
    ELSE IF U32At(p) \notin PreambleSet THEN p
    ELSE IF data[p + 7] # 0 \/ data[p + 8] # 0 THEN Len(data)
    ELSE FirstOutside(p + 8 + data[p + 5] + 256 * data[p + 6])

EnteredAtV1 == ret.op = "start_section" /\ ret.ver = "V1" /\ ret.kind = "Ok"

\* C10: StartSection entered at V1 skips every leading chunk whose typecode is in the
\* preamble set; at the first typecode outside the set it upgrades the context to V2
\* iff (typecode & 0xFFFF0000) = TABLE, and on successful return the stream is back at
\* the pre-scan position iff the context version is still V1 (past that typecode
\* otherwise).
C10_StartSection ==
    EnteredAtV1 =>
        LET stop == FirstOutside(ret.pre)
            typecode == U32At(stop)
        IN  /\ stop + 4 <= Len(data)
            /\ typecode \notin PreambleSet
            /\ version = "V2" <=> (typecode[1] = 16 /\ typecode[2] = 0)
            /\ version \in {"V1", "V2"}
            /\ position = ret.pre <=> version = "V1"
            /\ version = "V2" => position = stop + 4

\* C10 witness: two preamble chunks skipped from position 5, then a table typecode that
\* is not TABLE itself: upgraded to V2 and left past that typecode
C10_Witness ==
    /\ EnteredAtV1
    /\ ret.pre = 5
    /\ FirstOutside(5) = 5 + 16 + 8
    /\ U32At(FirstOutside(5)) = SETTINGS_TABLE
    /\ version = "V2"
    /\ position = 33

RECURSIVE HeaderStarts(_)
\* where the headers of the chunks lie that the scan from p passes, the one of the
\* first chunk outside the preamble set included
HeaderStarts(p) ==
    IF p + 8 > Len(data) \/ U32At(p) \notin PreambleSet THEN {p}
    ELSE IF data[p + 7] # 0 \/ data[p + 8] # 0 THEN {p}
    ELSE {p} \cup HeaderStarts(p + 8 + data[p + 5] + 256 * data[p + 6])
Upgraded == EnteredAtV1 /\ version = "V2"

\* C28: when StartSection starts at V1 and upgrades the context to V2, the stream is
\* on return exactly 4 bytes past the start of the first chunk header outside the
\* preamble set, just after its typecode and before its length field: the scan is
\* not rewound, and the position is the start of none of the chunk headers
C28_NotRewound ==
    Upgraded =>
        /\ position = FirstOutside(ret.pre) + 4
        /\ is_table(U32At(position - 4))
        /\ position # ret.pre
        /\ position \notin HeaderStarts(ret.pre)

\* a summary of eight bytes, then the typecode TABLE: the stream is left at 20, after
\* the typecode that starts at 16
C28_Witness ==
    /\ Upgraded
    /\ ret.pre = 0
    /\ U32At(0) = SUMMARY
    /\ HeaderStarts(0) = {0, 16}
    /\ U32At(16) = TABLE
    /\ position = 20
    /\ Len(data) > 20

-----------------------------------------------------------------------------
(* Tables: the loops the derive macros generate (derive/src/lib.rs, rhino.rs) *)

PROPERTIES_REVISIONHISTORY == TC(32, 0, 128, 33)
PROPERTIES_NOTES == TC(32, 0, 128, 34)
PROPERTIES_PREVIEWIMAGE == TC(32, 0, 128, 35)
PROPERTIES_APPLICATION == TC(32, 0, 128, 36)
PROPERTIES_COMPRESSED_PREVIEWIMAGE == TC(32, 0, 128, 37)
PROPERTIES_AS_FILE_NAME == TC(32, 0, 128, 39)
SETTINGS_PLUGINLIST == TC(32, 0, 129, 53)
SETTINGS_UNITSANDTOLS == TC(32, 0, 128, 49)
SETTINGS_RENDERMESH == TC(32, 0, 128, 50)
SETTINGS_ANALYSISMESH == TC(32, 0, 128, 51)
SETTINGS_ANNOTATION == TC(32, 0, 128, 52)
SETTINGS_MODEL_URL == TC(32, 0, 129, 49)
SETTINGS_ATTRIBUTES == TC(32, 0, 129, 52)
SETTINGS_CURRENT_COLOR == TC(32, 0, 128, 58)

\* the fields of the three tables of an archive, by typecode (#[table_field(..)])
PropertiesV1Fields == {COMMENTBLOCK, SUMMARY, NOTES, BITMAPPREVIEW}
PropertiesV2Fields ==
    {PROPERTIES_AS_FILE_NAME, PROPERTIES_OPENNURBS_VERSION, PROPERTIES_REVISIONHISTORY,
     PROPERTIES_NOTES, PROPERTIES_APPLICATION, PROPERTIES_PREVIEWIMAGE,
     PROPERTIES_COMPRESSED_PREVIEWIMAGE}
SettingsFields ==
    {SETTINGS_PLUGINLIST, SETTINGS_UNITSANDTOLS, SETTINGS_RENDERMESH, SETTINGS_ANALYSISMESH,
     SETTINGS_ANNOTATION, SETTINGS_MODEL_URL, SETTINGS_ATTRIBUTES, SETTINGS_CURRENT_COLOR}

\* a deserializer in the middle of a decode: the byte source's position, the live
\* sub-streams, Reader::version and Reader::chunk_begin; with them the record a table
\* decode is filling (`table`, by field typecode) and the sub-chunks it has opened
MkM(pos, cs, ver, cb) ==
    [pos |-> pos, cs |-> cs, ver |-> ver, cb |-> cb, table |-> <<>>, subs |-> <<>>]
MResult(kind, err, m) == [kind |-> kind, err |-> err, m |-> m]
At(m, pos) == [m EXCEPT !.pos = pos]

\* `i64 as u64`
AsU64(v) == AsI64(v) % (U64Max + 1)

\* Begin::deserialize(deserializer)
MBegin(m) ==
    LET Stored(r) ==
            LET ctx == set_chunk_begin(m.cs, m.cb, r.begin)
            IN  IF r.kind # "Ok" THEN MResult(r.kind, r.err, At(m, r.pos))
                ELSE MResult("Ok", "-", [m EXCEPT !.pos = r.pos, !.cs = ctx.chunks,
                                                  !.cb = ctx.chunk_begin])
    IN  Bind(BeginDecode(m.cs, m.pos, CurVersion(m.cs, m.ver)), Stored)

\* Chunk::deserialize(deserializer): the header, then the sub-stream of its value bytes
\* from its end; a value of 0 is EmptyChunk
ChunkDeserialize(m) ==
    LET Opened(b) ==
            LET begin == CurBegin(b.m.cs, b.m.cb)
                length == AsU64(begin.value)
                chunk == MkChunk(begin.initial_position, length,
                                 CurVersion(b.m.cs, b.m.ver), begin)
            IN  IF b.kind # "Ok" THEN b
                ELSE IF ChunkNewFails(length) THEN MResult("Err", "EmptyChunk", b.m)
                ELSE MResult("Ok", "-", [b.m EXCEPT !.cs = Append(@, chunk)])
    IN  Bind(MBegin(m), Opened)

SeekEndAndDrop_m(m) ==
    LET Sought(r) ==
            IF r.kind # "Ok" THEN MResult("Panic", r.err, At(m, r.pos))
            ELSE MResult("Ok", "-", [m EXCEPT !.pos = r.pos, !.cs = Front(@)])
    IN  Bind(Seek(m.cs, m.pos, "End", 0), Sought)
SeekEndAndDrop_rewind(m) ==
    LET Sought(r) ==
            IF r.kind # "Ok" THEN MResult("Panic", r.err, At(m, r.pos))
            ELSE MResult("Ok", "-", [m EXCEPT !.pos = Last(m.cs).begin.initial_position,
                                              !.cs = Front(@)])
    IN  Bind(Seek(m.cs, m.pos, "End", 1), Sought)
\* chunk.seek(SeekFrom::End(1)).unwrap(), then the sub-stream goes out of scope
SeekEndAndDrop(m) ==
    LET Sought(r) ==
            IF r.kind # "Ok" THEN MResult("Panic", r.err, At(m, r.pos))
            ELSE MResult("Ok", "-", [m EXCEPT !.pos = r.pos, !.cs = Front(@)])
    IN  Bind(Seek(m.cs, m.pos, "End", 1), Sought)

\* the result of a field decode: value is what the field is assigned
FieldResult(kind, err, m, value) == [kind |-> kind, err |-> err, m |-> m, value |-> value]

RECURSIVE Numbers(_, _, _)
\* count numbers of n bytes each, one after the other (the fields of a plain struct)
Numbers(m, count, n) ==
    LET Next(r) ==
            LET Rest(t) == [t EXCEPT !.value = <<r.num>> \o @]
            IN  IF r.kind # "Ok" THEN FieldResult(r.kind, r.err, At(m, r.pos), <<>>)
                ELSE Bind(Numbers(At(m, r.pos), count - 1, n), Rest)
    IN  IF count = 0 THEN FieldResult("Ok", "-", m, <<>>)
        ELSE Bind(NumDeserialize(m.cs, m.pos, n), Next)

RECURSIVE ReadToEnd(_, _, _)
\* Read::read_to_end: reads of 32 bytes until one returns 0; val is where the bytes start
ReadToEnd(cs, start, pos) ==
    LET More(r) ==
            IF r.kind # "Ok" THEN r
            ELSE IF r.val = 0 THEN Ok(start, r.pos)
            ELSE ReadToEnd(cs, start, r.pos)
    IN  Bind(Read(cs, pos, 32), More)

IsUtf8_m(bytes) == TRUE
\* str::from_utf8 on bytes that are ASCII or 0xFF
IsUtf8(bytes) == \A i \in 1..Len(bytes) : bytes[i] < 128

\* String::deserialize: read_to_string
StringDeserialize(m) ==
    LET Checked(r) ==
            IF r.kind # "Ok" THEN FieldResult(r.kind, r.err, At(m, r.pos), <<>>)
            ELSE IF IsUtf8(Bytes(r.val, r.pos - r.val))
                 THEN FieldResult("Ok", "-", At(m, r.pos), Bytes(r.val, r.pos - r.val))
            ELSE FieldResult("Err", "InvalidData", At(m, r.pos), <<>>)
    IN  Bind(ReadToEnd(m.cs, m.pos, m.pos), Checked)

\* the arm of a table field: #field_ty::deserialize(deserializer)?.  String and
\* CurrentColor are decoded as the program does; of the decoders of the other fields
\* only the outcome is kept, fails
FieldDeserialize(typecode, m, fails) ==
    CASE typecode = COMMENTBLOCK -> StringDeserialize(m)
      [] typecode = SETTINGS_CURRENT_COLOR -> Numbers(m, 2, 4)
      [] OTHER -> IF fails THEN FieldResult("Err", "field", m, <<>>)
                  ELSE FieldResult("Ok", "-", m, <<"decoded">>)

\* `let mut table = Self::default()`: <<>> stands for the default of a field
DefaultTable(fields) == [t \in fields |-> <<>>]

\* a sub-chunk the loop of a table has opened: where its header starts and where its
\* payload starts, both in the byte source
SubChunk(typecode, at, payload) == [typecode |-> typecode, at |-> at, payload |-> payload]

FieldFailed_m(f) ==
    LET Sought(r) == MResult(f.kind, f.err, At(f.m, r.pos))
    IN  Bind(Seek(f.m.cs, f.m.pos, "End", 1), Sought)
\* the `?` of a field arm: the error is returned from where the field decoder stopped,
\* the sub-stream goes out of scope without a seek
FieldFailed(f) == MResult(f.kind, f.err, f.m)

AssignField_m(m, typecode, value) ==
    IF m.table[typecode] # <<>> THEN m ELSE [m EXCEPT !.table[typecode] = value]
\* table.#field_ident = #field_deserialize
AssignField(m, typecode, value) == [m EXCEPT !.table[typecode] = value]

\* one iteration of the loop of a table over the sub-chunks of deserializer m: what
\* the loop returns, or "Continue" with the deserializer the next iteration starts
\* from.  skips: an unknown typecode is skipped and ENDOFTABLE ends the loop
\* (derive/src/rhino.rs, wrapped); otherwise an unknown typecode ends the loop
Iteration(m, fields, skips, fails) ==
    LET Sub(c) ==
            LET typecode == CurBegin(c.m.cs, c.m.cb).typecode
                opened == [c.m EXCEPT !.subs = Append(@, SubChunk(typecode, m.pos, c.m.pos))]
                Again(s) == IF s.kind # "Ok" THEN s ELSE MResult("Continue", "-", s.m)
                Closed(f) ==
                    IF f.kind # "Ok" THEN FieldFailed(f)
                    ELSE Bind(SeekEndAndDrop(AssignField(f.m, typecode, f.value)), Again)
            IN  IF c.kind # "Ok" THEN c
                ELSE IF typecode \in fields
                     THEN Bind(FieldDeserialize(typecode, opened, fails), Closed)
                ELSE IF skips /\ typecode # ENDOFTABLE THEN Bind(SeekEndAndDrop(opened), Again)
                ELSE MResult("Ok", "-", [opened EXCEPT !.cs = Front(@)])
    IN  Bind(ChunkDeserialize(m), Sub)

RECURSIVE TableLoop(_, _, _, _)
\* loop { ... }: iterations until one returns
TableLoop(m, fields, skips, fails) ==
    LET Iterated(s) ==
            IF s.kind = "Continue" THEN TableLoop(s.m, fields, skips, fails) ELSE s
    IN  Bind(Iteration(m, fields, skips, fails), Iterated)

WrappedTable_m(m, table, fields, skips, fails) ==
    LET Outer(p) ==
            LET Close(t) == IF t.kind # "Ok" THEN t ELSE SeekEndAndDrop(t.m)
            IN  IF p.kind # "Ok" THEN p
                ELSE IF table = CurBegin(p.m.cs, p.m.cb).typecode
                     THEN Bind(TableLoop(p.m, fields, skips, fails), Close)
                ELSE MResult("Err", "Invalid typecode", p.m)
    IN  Bind(ChunkDeserialize([m EXCEPT !.table = DefaultTable(fields), !.subs = <<>>]), Outer)
\* #[table(TYPECODE)]: the table is the payload of one outer chunk
WrappedTable(m, table, fields, skips, fails) ==
    LET Outer(p) ==
            LET Close(t) == IF t.kind # "Ok" THEN t ELSE SeekEndAndDrop(t.m)
            IN  IF p.kind # "Ok" THEN p
                ELSE IF table = CurBegin(p.m.cs, p.m.cb).typecode
                     THEN Bind(TableLoop(p.m, fields, skips, fails), Close)
                ELSE SeekEndAndDrop(p.m)
    IN  Bind(ChunkDeserialize([m EXCEPT !.table = DefaultTable(fields), !.subs = <<>>]), Outer)

BareTable_m(m, fields, fails) ==
    TableLoop([m EXCEPT !.table = DefaultTable(fields), !.subs = <<>>], fields, TRUE, fails)
\* #[table]: the sub-chunks lie in the deserializer itself
BareTable(m, fields, fails) ==
    TableLoop([m EXCEPT !.table = DefaultTable(fields), !.subs = <<>>], fields, FALSE, fails)

-----------------------------------------------------------------------------
(* The sections of an archive *)

\* "3D Geometry File Format "
FILE_BEGIN ==
    <<51, 68, 32, 71, 101, 111, 109, 101, 116, 114, 121, 32,
      70, 105, 108, 101, 32, 70, 111, 114, 109, 97, 116, 32>>

\* Header::deserialize
HeaderDeserialize(m) ==
    LET Compared(r) ==
            IF r.kind # "Ok" THEN MResult(r.kind, r.err, At(m, r.pos))
            ELSE IF FILE_BEGIN = Bytes(r.val, Len(FILE_BEGIN)) THEN MResult("Ok", "-", At(m, r.pos))
            ELSE MResult("Err", "invalid header", At(m, r.pos))
    IN  Bind(ReadExact(m.cs, m.pos, m.pos, Len(FILE_BEGIN)), Compared)

\* an unchecked u8 `acc * 10u8 + d`
MulAddU8(acc, d) ==
    [panic |-> debug_assertions /\ acc * 10 + d > 255, val |-> (acc * 10 + d) % 256]

RECURSIVE FoldDigits(_, _, _)
\* try_fold(0u8, ..) over the bytes of buffer from index i
FoldDigits(buffer, i, acc) ==
    IF i > Len(buffer) THEN [kind |-> "Ok", val |-> acc]
    ELSE IF buffer[i] \notin 48..57 THEN [kind |-> "Err", val |-> 0]
    ELSE IF MulAddU8(acc, buffer[i] - 48).panic THEN [kind |-> "Panic", val |-> 0]
    ELSE FoldDigits(buffer, i + 1, MulAddU8(acc, buffer[i] - 48).val)

\* skip_while(|x| **x == ' ' as u8): the index of the first byte that is no space
SkipSpaces(buffer) ==
    CHOOSE i \in 1..(Len(buffer) + 1) :
        /\ \A j \in 1..(i - 1) : buffer[j] = 32
        /\ i = Len(buffer) + 1 \/ buffer[i] # 32

\* Version::try_from(u8); "-" stands for Err(InvalidVersion)
try_from(value) ==
    CASE value = 1 -> "V1" [] value = 2 -> "V2" [] value = 3 -> "V3" [] value = 4 -> "V4"
      [] value = 50 -> "V50" [] value = 60 -> "V60" [] value = 70 -> "V70" [] OTHER -> "-"

\* the result of Version::deserialize: value is the Version returned, "-" when none
VersionResult(kind, err, m, value) == [kind |-> kind, err |-> err, m |-> m, value |-> value]

VersionDeserialize_m(m) ==
    LET Parsed(r) ==
            LET buffer == Bytes(r.val, 8)
                v == FoldDigits(buffer, SkipSpaces(buffer), 0)
            IN  IF r.kind # "Ok" THEN VersionResult(r.kind, r.err, At(m, r.pos), "-")
                ELSE IF v.kind = "Panic" THEN VersionResult("Panic", "overflow", At(m, r.pos), "-")
                ELSE IF v.kind = "Err" \/ try_from(v.val) = "-"
                     THEN VersionResult("Err", "InvalidVersion", At(m, r.pos), "-")
                ELSE VersionResult("Ok", "-", At(m, r.pos), try_from(v.val))
    IN  Bind(ReadExact(m.cs, m.pos, m.pos, 8), Parsed)
\* Version::deserialize
VersionDeserialize(m) ==
    LET Parsed(r) ==
            LET buffer == Bytes(r.val, 8)
                v == FoldDigits(buffer, SkipSpaces(buffer), 0)
                ctx == set_version(m.cs, m.ver, try_from(v.val))
            IN  IF r.kind # "Ok" THEN VersionResult(r.kind, r.err, At(m, r.pos), "-")
                ELSE IF v.kind = "Panic" THEN VersionResult("Panic", "overflow", At(m, r.pos), "-")
                ELSE IF v.kind = "Err" \/ try_from(v.val) = "-"
                     THEN VersionResult("Err", "InvalidVersion", At(m, r.pos), "-")
                ELSE VersionResult("Ok", "-", MkM(r.pos, ctx.chunks, ctx.version, m.cb),
                                   try_from(v.val))
    IN  Bind(ReadExact(m.cs, m.pos, m.pos, 8), Parsed)

RECURSIVE TakeReadToEnd(_, _, _, _)
\* take(limit).read_to_end(..): reads of at most 32 bytes until limit bytes are read
\* or a read returns 0; val is where the bytes start
TakeReadToEnd(cs, start, pos, limit) ==
    LET More(r) ==
            IF r.kind # "Ok" THEN r
            ELSE IF r.val = 0 THEN Ok(start, r.pos)
            ELSE TakeReadToEnd(cs, start, r.pos, limit - r.val)
    IN  IF limit = 0 THEN Ok(start, pos) ELSE Bind(Read(cs, pos, Min(limit, 32)), More)

\* the result of a string decode: value is the bytes of the String returned
StringResult(kind, err, m, value) == [kind |-> kind, err |-> err, m |-> m, value |-> value]

\* StringWithChunkValue::deserialize
StringWithChunkValueDeserialize(m) ==
    LET Value(value) ==
            LET chunk_value == AsI64(value.num)
                Sized(r) ==
                    IF r.kind # "Ok" THEN StringResult(r.kind, r.err, At(m, r.pos), <<>>)
                    ELSE IF ~IsUtf8(Bytes(r.val, r.pos - r.val))
                         THEN StringResult("Err", "InvalidData", At(m, r.pos), <<>>)
                    ELSE IF r.pos - r.val = chunk_value
                         THEN StringResult("Ok", "-", At(m, r.pos), Bytes(r.val, r.pos - r.val))
                    ELSE StringResult("Err", "Invalid length", At(m, r.pos), <<>>)
            IN  IF value.kind # "Ok"
                THEN StringResult(value.kind, value.err, At(m, value.pos), <<>>)
                ELSE IF chunk_value > 0
                     THEN Bind(TakeReadToEnd(m.cs, value.pos, value.pos, chunk_value), Sized)
                ELSE StringResult("Err", "Negative length", At(m, value.pos), <<>>)
    IN  Bind(ValueDeserialize(m.cs, m.pos, CurVersion(m.cs, m.ver), CurBegin(m.cs, m.cb)), Value)

\* Comment::deserialize
CommentDeserialize(m) ==
    LET Typecode(t) ==
            IF t.kind # "Ok" THEN StringResult(t.kind, t.err, At(m, t.pos), <<>>)
            ELSE IF COMMENTBLOCK = t.num THEN StringWithChunkValueDeserialize(At(m, t.pos))
            ELSE StringResult("Err", "Invalid typecode", At(m, t.pos), <<>>)
    IN  Bind(NumDeserialize(m.cs, m.pos, 4), Typecode)

\* StartSection::deserialize
StartSectionM(m) ==
    LET Scanned(r) ==
            LET ctx == set_version(m.cs, m.ver, r.version)
            IN  MResult(r.kind, r.err, MkM(r.pos, ctx.chunks, ctx.version, m.cb))
    IN  Bind(StartSection(m.cs, m.pos, CurVersion(m.cs, m.ver), CurBegin(m.cs, m.cb)), Scanned)

\* Properties::deserialize
PropertiesDeserialize(m, fails) ==
    LET Sought(s) ==
            IF s.kind # "Ok" THEN MResult("Panic", s.err, At(m, s.pos))
            ELSE BareTable(At(m, s.pos), PropertiesV1Fields, fails)
    IN  IF "V1" = CurVersion(m.cs, m.ver) THEN Bind(Seek(m.cs, m.pos, "Start", 32), Sought)
        ELSE WrappedTable(m, PROPERTIES_TABLE, PropertiesV2Fields, FALSE, fails)

SettingsDeserialize_m(m, fails) == WrappedTable(m, SETTINGS_TABLE, SettingsFields, FALSE, fails)
\* Settings::deserialize
SettingsDeserialize(m, fails) == WrappedTable(m, SETTINGS_TABLE, SettingsFields, TRUE, fails)

-----------------------------------------------------------------------------
(* Specification of Archive::deserialize on a Reader *)

\* the order of the fields of Archive
Sections == <<"Header", "FileVersion", "Comment", "StartSection", "Properties", "Settings">>

\* a chunk as it lies in an archive of version ver; len -1 is a length field of all ones
LenField(ver, len) ==
    IF len = -1 THEN (IF size_of_length(ver) = 8 THEN Field8(3) ELSE Field4(3))
    ELSE <<len, 0, 0, 0>> \o (IF size_of_length(ver) = 8 THEN Zeros(4) ELSE <<>>)
ChunkBytes(ver, typecode, len, payload) ==
    from_le_bytes(typecode) \o LenField(ver, len) \o payload
TableBytes(ver, typecode, inner) == ChunkBytes(ver, typecode, Len(inner), inner)

Headers == {FILE_BEGIN, [FILE_BEGIN EXCEPT ![1] = 52], SubSeq(FILE_BEGIN, 1, 10)}
\* "1", "2", "50", "258", "9", "5x"
VersionDigits == {<<49>>, <<50>>, <<53, 48>>, <<50, 53, 56>>, <<57>>, <<53, 120>>}
VersionField(digits) == [i \in 1..(8 - Len(digits)) |-> 32] \o digits
\* the version the chunks after a version field are laid out for
LayoutVersion(digits) ==
    CASE digits = <<49>> -> "V1" [] digits = <<53, 48>> -> "V50" [] OTHER -> "V2"

Comments(ver) ==
    {ChunkBytes(ver, COMMENTBLOCK, 2, <<97, 98>>), ChunkBytes(ver, COMMENTBLOCK, 2, <<97, 255>>),
     ChunkBytes(ver, COMMENTBLOCK, 0, <<>>), ChunkBytes(ver, SUMMARY, 2, <<97, 98>>)}
Preambles(ver) ==
    {<<>>, ChunkBytes(ver, SUMMARY, 2, <<0, 0>>), ChunkBytes(ver, NOTES, -1, <<>>)}
EndOfTableBytes(ver) == ChunkBytes(ver, ENDOFTABLE, 1, <<>>)
UnknownBytes(ver) == ChunkBytes(ver, TC(0, 0, 0, 9), 2, <<7, 7>>)
PropertiesTables(ver) ==
    {TableBytes(ver, PROPERTIES_TABLE, EndOfTableBytes(ver)),
     TableBytes(ver, PROPERTIES_TABLE,
                ChunkBytes(ver, PROPERTIES_NOTES, 2, <<0, 0>>) \o EndOfTableBytes(ver)),
     ChunkBytes(ver, PROPERTIES_TABLE, -1, EndOfTableBytes(ver)),
     TableBytes(ver, SETTINGS_TABLE, EndOfTableBytes(ver)),
     ChunkBytes(ver, TC(0, 0, 0, 0), 1, <<>>)}
ColorBytes(ver, n) == ChunkBytes(ver, SETTINGS_CURRENT_COLOR, n, [i \in 1..n |-> i])
SettingsTables(ver) ==
    {TableBytes(ver, SETTINGS_TABLE,
                ColorBytes(ver, 8) \o UnknownBytes(ver) \o EndOfTableBytes(ver)),
     TableBytes(ver, SETTINGS_TABLE, UnknownBytes(ver) \o ColorBytes(ver, 8)),
     TableBytes(ver, SETTINGS_TABLE, ColorBytes(ver, 4) \o EndOfTableBytes(ver)),
     <<>>}

NoARet == [op |-> "archive", log |-> <<>>]

InitArchive ==
    /\ debug_assertions \in BOOLEAN
    /\ version \in {"V1", "V2"}
    /\ \E header \in Headers, digits \in VersionDigits :
       \E comment \in Comments(LayoutVersion(digits)),
          preamble \in Preambles(LayoutVersion(digits)),
          properties \in PropertiesTables(LayoutVersion(digits)),
          settings \in SettingsTables(LayoutVersion(digits)) :
           data = header \o VersionField(digits) \o comment \o preamble \o properties \o settings
    /\ position = 0
    /\ chunk_begin = NoBegin
    /\ chunks = <<>>
    /\ ret = NoARet
    /\ pc = "Header"
    /\ ops = 0

\* the deserializer Archive::deserialize is given
TheReader == MkM(position, chunks, version, chunk_begin)

Try_m(kind, next) == next
\* `#field_ty::deserialize(deserializer)?`: where the decode of Archive goes on
Try(kind, next) ==
    CASE kind = "Ok" -> next [] kind = "Err" -> "failed" [] OTHER -> "panic"

\* one field of Archive has been decoded with result r
Field(section, next, r) ==
    /\ position' = r.m.pos
    /\ version' = r.m.ver
    /\ chunk_begin' = r.m.cb
    /\ chunks' = IF r.kind = "Ok" THEN r.m.cs ELSE <<>>
    /\ ret' = [ret EXCEPT !.log = Append(@, [section |-> section, kind |-> r.kind,
                                              pre |-> position, post |-> r.m.pos])]
    /\ pc' = Try(r.kind, next)
    /\ UNCHANGED <<debug_assertions, data, ops>>

\* header: Header::deserialize(deserializer)?
ArchiveHeader ==
    /\ pc = "Header"
    /\ \E r \in {HeaderDeserialize(TheReader)} : Field("Header", "FileVersion", r)

\* version: Version::deserialize(deserializer)?
ArchiveVersion ==
    /\ pc = "FileVersion"
    /\ \E r \in {VersionDeserialize(TheReader)} : Field("FileVersion", "Comment", r)

\* comment: Comment::deserialize(deserializer)?
ArchiveComment ==
    /\ pc = "Comment"
    /\ \E r \in {CommentDeserialize(TheReader)} : Field("Comment", "StartSection", r)

\* start_section: StartSection::deserialize(deserializer)?
ArchiveStartSection ==
    /\ pc = "StartSection"
    /\ \E r \in {StartSectionM(TheReader)} : Field("StartSection", "Properties", r)

\* properties: Properties::deserialize(deserializer)?
ArchiveProperties ==
    /\ pc = "Properties"
    /\ \E fails \in BOOLEAN :
       \E r \in {PropertiesDeserialize(TheReader, fails)} : Field("Properties", "Settings", r)

\* settings: Settings::deserialize(deserializer)?
ArchiveSettings ==
    /\ pc = "Settings"
    /\ \E fails \in BOOLEAN :
       \E r \in {SettingsDeserialize(TheReader, fails)} : Field("Settings", "done", r)

NextArchive ==
    \/ ArchiveHeader
    \/ ArchiveVersion
    \/ ArchiveComment
    \/ ArchiveStartSection
    \/ ArchiveProperties
    \/ ArchiveSettings

SpecArchive == InitArchive /\ [][NextArchive]_vars

\* C9: Archive decode runs its section decoders in the order Header, FileVersion,
\* Comment, StartSection, Properties, Settings; each one starts only after the one
\* before it succeeded, at the position that one left; the first step that fails (it
\* returns an error, or it panics) ends the decode, and the stream stays where the
\* failing step left it; the decode is done exactly when all six succeeded
C9_SectionsInOrder ==
    ret.op = "archive" =>
        LET log == ret.log
            n == Len(log)
        IN  /\ n <= Len(Sections)
            /\ \A i \in 1..n : log[i].section = Sections[i]
            /\ \A i \in 1..(n - 1) : log[i].kind = "Ok" /\ log[i + 1].pre = log[i].post
            /\ n > 0 => log[1].pre = 0 /\ position = log[n].post
            /\ pc = IF n = 0 THEN "Header"
                    ELSE IF log[n].kind = "Err" THEN "failed"
                    ELSE IF log[n].kind = "Panic" THEN "panic"
                    ELSE IF n = Len(Sections) THEN "done"
                    ELSE Sections[n + 1]

\* a decode that failed in the Comment, after the Header and the FileVersion succeeded
C9_Witness ==
    /\ ret.op = "archive"
    /\ pc = "failed"
    /\ Len(ret.log) = 3
    /\ ret.log[3].kind = "Err"

-----------------------------------------------------------------------------
(* Specification of Version::deserialize on a Reader *)

\* bytes of the version field that vary; the bytes before them are all the same
VersionTail == 3

\* ' ', '/', '0'..'9', ':', 'a', 0xFF
BlockBytes == {32, 47, 48, 49, 50, 51, 52, 53, 54, 55, 56, 57, 58, 97, 255}
\* the byte the field is filled up with on the left: ' ' or '0'
FillBytes == {32, 48}
\* bytes of the byte source: a whole field, or one cut short
FieldLens == {8, 5}

NoVRet == [op |-> "none", kind |-> "-", err |-> "-", value |-> "-", pre |-> "V1"]

InitVersion ==
    /\ debug_assertions \in BOOLEAN
    /\ version \in {"V1", "V60"}
    /\ \E fill \in FillBytes, tail \in [1..VersionTail -> BlockBytes], n \in FieldLens :
           data = SubSeq([i \in 1..(8 - VersionTail) |-> fill] \o tail, 1, n)
    /\ position = 0
    /\ chunk_begin = NoBegin
    /\ chunks = <<>>
    /\ ret = NoVRet
    /\ pc = "Version"
    /\ ops = 0

\* Version::deserialize(&mut deserializer)
VersionDecode ==
    /\ pc = "Version"
    /\ \E r \in {VersionDeserialize(TheReader)} :
           /\ position' = r.m.pos
           /\ version' = r.m.ver
           /\ chunks' = r.m.cs
           /\ ret' = [op |-> "version", kind |-> r.kind, err |-> r.err, value |-> r.value,
                      pre |-> version]
           /\ pc' = Try(r.kind, "done")
    /\ UNCHANGED <<debug_assertions, data, chunk_begin, ops>>

NextVersion == VersionDecode

SpecVersion == InitVersion /\ [][NextVersion]_vars

RECURSIVE NumericValue(_)
\* the number a string of decimal digits denotes
NumericValue(digits) ==
    IF digits = <<>> THEN 0
    ELSE NumericValue(Front(digits)) * 10 + (Last(digits) - 48)

\* the version a block stands for: spaces, then digits of value 1, 2, 3, 4, 50, 60 or
\* 70; "-" for every other block
ClaimedVersion(block) ==
    LET first == SkipSpaces(block)
        digits == SubSeq(block, first, Len(block))
    IN  IF \E i \in 1..Len(digits) : digits[i] \notin 48..57 THEN "-"
        ELSE try_from(NumericValue(digits))

VersionDecoded == ret.op = "version" /\ Len(data) = 8

\* C11: Version::deserialize of an 8-byte block returns the version the block stands
\* for when it is spaces followed by digits of value 1, 2, 3, 4, 50, 60 or 70, and
\* InvalidVersion for every other block, also for a value above 255
C11_VersionOfBlock ==
    VersionDecoded =>
        IF ClaimedVersion(data) # "-"
        THEN ret.kind = "Ok" /\ ret.value = ClaimedVersion(data)
        ELSE ret.kind = "Err" /\ ret.err = "InvalidVersion"

\* C12: Version::deserialize sets the version of the deserializer to the version it
\* returns exactly when it succeeds; when it fails, by a short read or with
\* InvalidVersion, the version of the deserializer is the one it had before
C12_VersionSetOnSuccess ==
    ret.op = "version" =>
        /\ ret.kind = "Ok" => version = ret.value
        /\ ret.kind # "Ok" => version = ret.pre
        /\ version # ret.pre => ret.kind = "Ok"

\* a decode that returned a version other than the one the deserializer had
C12_Witness ==
    /\ ret.op = "version"
    /\ ret.kind = "Ok"
    /\ ret.value = "V50"
    /\ ret.pre = "V1"
    /\ version = "V50"

-----------------------------------------------------------------------------
(* Specification of Comment::deserialize on a Reader *)

\* bytes after the chunk header
MaxPayload == 3

\* 'a', 'b', 0xFF
PayloadBytes == {97, 98, 255}
CommentTypecodes == {COMMENTBLOCK, SUMMARY, TC(0, 0, 0, 0), ENDOFTABLE}
\* the length field of the chunk; -1 is a field of all ones
CommentLens == {0, 1, 2, 3, 4, -1}
CommentVersions == {"V1", "V4", "V50"}
\* the chunk header the deserializer holds from the decode before
StaleBegins == {NoBegin, [NoBegin EXCEPT !.typecode = ENDOFTABLE]}

NoCRet == [op |-> "none", kind |-> "-", err |-> "-", value |-> <<>>, pre |-> 0, ver |-> "V1"]

InitComment ==
    /\ debug_assertions \in BOOLEAN
    /\ version \in CommentVersions
    /\ position \in StartPositions
    /\ chunk_begin \in StaleBegins
    /\ \E t \in CommentTypecodes, len \in CommentLens, n \in 0..MaxPayload :
       \E payload \in [1..n -> PayloadBytes] :
           data = Zeros(position) \o ChunkBytes(version, t, len, payload)
    /\ chunks = <<>>
    /\ ret = NoCRet
    /\ pc = "Comment"
    /\ ops = 0

\* Comment::deserialize(&mut deserializer)
CommentDecode ==
    /\ pc = "Comment"
    /\ \E r \in {CommentDeserialize(TheReader)} :
           /\ position' = r.m.pos
           /\ ret' = [op |-> "comment", kind |-> r.kind, err |-> r.err, value |-> r.value,
                      pre |-> position, ver |-> version]
           /\ pc' = Try(r.kind, "done")
    /\ UNCHANGED <<debug_assertions, data, version, chunk_begin, chunks, ops>>

NextComment == CommentDecode

SpecComment == InitComment /\ [][NextComment]_vars

\* the chunk the comment is decoded from: where its header ends, its typecode, and
\* its length L (U64Max for a length beyond the lengths of the byte sources)
PayloadStart == ret.pre + 4 + size_of_length(ret.ver)
CommentTypecode == U32At(ret.pre)
CommentLength ==
    LET field == Bytes(ret.pre + 4, size_of_length(ret.ver))
    IN  IF \A i \in 2..Len(field) : field[i] = 0 THEN field[1]
        ELSE IF Len(field) = 8 /\ field[8] >= 128 THEN -1
        ELSE U64Max
PayloadAvailable == Len(data) - PayloadStart >= CommentLength
ValidText(bytes) == \A i \in 1..Len(bytes) : bytes[i] \in 0..127
CommentDecoded == ret.op = "comment" /\ CommentLength > 0
CommentReturned ==
    /\ ret.kind = "Ok"
    /\ ret.value = Bytes(PayloadStart, CommentLength)
    /\ position = PayloadStart + CommentLength

\* C13 as stated: the first L payload bytes are returned whenever the typecode is
\* COMMENTBLOCK and L bytes follow the header
C13_AsClaimed ==
    CommentDecoded =>
        IF CommentTypecode = COMMENTBLOCK /\ PayloadAvailable
        THEN CommentReturned
        ELSE ret.kind = "Err"

\* C13: Comment::deserialize on a chunk with typecode t and length L > 0 returns the
\* first L payload bytes, leaving the stream just past them, when t is COMMENTBLOCK, L
\* bytes follow the header and those bytes are valid UTF-8; it returns an error when t
\* is not COMMENTBLOCK, when fewer than L bytes follow, or when they are not UTF-8
C13_Comment ==
    CommentDecoded =>
        IF /\ CommentTypecode = COMMENTBLOCK
           /\ PayloadAvailable
           /\ ValidText(Bytes(PayloadStart, CommentLength))
        THEN CommentReturned
        ELSE ret.kind = "Err"

\* a comment of two bytes returned from a source that holds three, through a
\* deserializer whose last chunk header was an ENDOFTABLE
C13_Witness ==
    /\ ret.op = "comment"
    /\ ret.kind = "Ok"
    /\ ret.value = <<97, 98>>
    /\ Len(data) = PayloadStart + 3
    /\ position = PayloadStart + 2
    /\ chunk_begin.typecode = ENDOFTABLE

-----------------------------------------------------------------------------
(* Chunk versions: the byte at the head of a record (chunk.rs, mod.rs) *)

\* u8 | u8
BitOr8(a, b) == a + b - BitAnd8(a, b)

minor_m(inner) == inner \div 16
\* chunk::Version::minor, chunk::Version::major
minor(inner) == BitAnd8(inner, 15)
major(inner) == inner \div 16

\* ChunkVersion {minor: raw_version | 0x0F, major: raw_version >> 4}
ChunkVersion(raw_version) ==
    [minor |-> BitOr8(raw_version, 15), major |-> raw_version \div 16]

\* u8::deserialize: the byte read, as a number
U8Deserialize(m) ==
    LET Read1(r) ==
            IF r.kind # "Ok" THEN [kind |-> r.kind, err |-> r.err, m |-> At(m, r.pos), value |-> 0]
            ELSE [kind |-> "Ok", err |-> "-", m |-> At(m, r.pos), value |-> r.num[1]]
    IN  Bind(NumDeserialize(m.cs, m.pos, 1), Read1)

NoKRet == [op |-> "none", decoder |-> "-", kind |-> "-", minor |-> 0, major |-> 0]

\* a Reader over one byte, or over none
InitChunkVersion ==
    /\ debug_assertions \in BOOLEAN
    /\ version \in {"V1", "V2"}
    /\ data \in {<<>>} \cup {<<b>> : b \in 0..255}
    /\ position = 0
    /\ chunk_begin = NoBegin
    /\ chunks = <<>>
    /\ ret = NoKRet
    /\ pc = "ChunkVersion"
    /\ ops = 0

\* chunk::Version::deserialize(&mut deserializer), then minor() and major()
VersionOfChunk ==
    /\ pc = "ChunkVersion"
    /\ \E r \in {U8Deserialize(TheReader)} :
           /\ position' = r.m.pos
           /\ ret' = [op |-> "chunk_version", decoder |-> "chunk::Version", kind |-> r.kind,
                      minor |-> minor(r.value), major |-> major(r.value)]
           /\ pc' = Try(r.kind, "done")
    /\ UNCHANGED <<debug_assertions, data, version, chunk_begin, chunks, ops>>

\* ChunkVersion::deserialize(deserializer)
ChunkVersionDeserialize ==
    /\ pc = "ChunkVersion"
    /\ \E r \in {U8Deserialize(TheReader)} :
           /\ position' = r.m.pos
           /\ ret' = [op |-> "chunk_version", decoder |-> "ChunkVersion", kind |-> r.kind,
                      minor |-> ChunkVersion(r.value).minor,
                      major |-> ChunkVersion(r.value).major]
           /\ pc' = Try(r.kind, "done")
    /\ UNCHANGED <<debug_assertions, data, version, chunk_begin, chunks, ops>>

NextChunkVersion == VersionOfChunk \/ ChunkVersionDeserialize

SpecChunkVersion == InitChunkVersion /\ [][NextChunkVersion]_vars

\* C14: every decoder of a chunk version splits the version byte b into
\* major = b >> 4 and minor = b & 0x0F, so that major * 16 + minor = b
C14_MajorMinor ==
    ret.op = "chunk_version" /\ ret.kind = "Ok" =>
        /\ ret.major = data[1] \div 16
        /\ ret.minor = data[1] % 16
        /\ ret.major * 16 + ret.minor = data[1]

-----------------------------------------------------------------------------
(* Specification of the table decoders (Settings, Properties) on a Reader *)

\* sub-chunks in a table of the byte source
MaxSubs == 2

\* a typecode no table declares
UNKNOWN == TC(0, 0, 0, 9)

SubKinds == {"color", "short_color", "long_color", "wide_color", "units", "notes", "unknown",
             "empty_unknown", "huge_unknown", "end", "empty_end"}
\* a sub-chunk of each kind as it lies in an archive of version ver
SubBytes(ver, kind) ==
    CASE kind = "color" -> ColorBytes(ver, 8)
      [] kind = "short_color" -> ColorBytes(ver, 4)
      [] kind = "long_color" -> ChunkBytes(ver, SETTINGS_CURRENT_COLOR, 12, <<1, 2, 3, 4>>)
      [] kind = "wide_color" ->
             ChunkBytes(ver, SETTINGS_CURRENT_COLOR, 10, [i \in 1..10 |-> 10 + i])
      [] kind = "units" -> ChunkBytes(ver, SETTINGS_UNITSANDTOLS, 1, <<5>>)
      [] kind = "notes" -> ChunkBytes(ver, PROPERTIES_NOTES, 1, <<6>>)
      [] kind = "unknown" -> UnknownBytes(ver)
      [] kind = "empty_unknown" -> ChunkBytes(ver, UNKNOWN, 0, <<>>)
      [] kind = "huge_unknown" -> ChunkBytes(ver, UNKNOWN, -1, <<>>)
      [] kind = "end" -> ChunkBytes(ver, ENDOFTABLE, 1, <<0>>)
      [] kind = "comment" -> ChunkBytes(ver, COMMENTBLOCK, 2, <<97, 98>>)
      [] kind = "other_comment" -> ChunkBytes(ver, COMMENTBLOCK, 1, <<99>>)
      [] kind = "summary" -> ChunkBytes(ver, SUMMARY, 3, <<7, 8, 9>>)
      [] kind = "empty_summary" -> ChunkBytes(ver, SUMMARY, 0, <<>>)
      [] OTHER -> ChunkBytes(ver, ENDOFTABLE, 0, <<>>)

RECURSIVE SubsBytes(_, _)
SubsBytes(ver, kinds) ==
    IF kinds = <<>> THEN <<>>
    ELSE SubBytes(ver, kinds[1]) \o SubsBytes(ver, SubSeq(kinds, 2, Len(kinds)))

SubSeqs == UNION {[1..n -> SubKinds] : n \in 0..MaxSubs}
TableTypecodes == {SETTINGS_TABLE, PROPERTIES_TABLE, UNKNOWN}
\* the outer length field: the length of the sub-chunks, 0, or all ones
OuterLens == {"exact", "zero", "ones"}
TableVersions == {"V2", "V50"}
\* the sub-chunks of the properties of a V1 archive, which start at byte 32
BareKinds == {"comment", "other_comment", "summary", "empty_summary", "unknown", "empty_unknown",
              "huge_unknown", "end"}
BareSeqs == UNION {[1..n -> BareKinds] : n \in 0..(MaxSubs + 1)}
PropertiesV1Start == 32

NoTRet == [op |-> "none", record |-> "-", kind |-> "-", err |-> "-", pre |-> 0,
           table |-> <<>>, subs |-> <<>>, fails |-> FALSE, open |-> 0]

InitTable ==
    /\ debug_assertions \in BOOLEAN
    /\ version \in TableVersions \cup {"V1"}
    /\ IF version = "V1"
       THEN \E kinds \in BareSeqs, terminated \in BOOLEAN :
            \E whole \in {Zeros(PropertiesV1Start)
                             \o SubsBytes(version, IF terminated THEN Append(kinds, "unknown")
                                                    ELSE kinds)
                             \o Zeros(TailLen)} :
                data \in {whole, SubSeq(whole, 1, Len(whole) - TailLen)}
       ELSE
       \E typecode \in TableTypecodes, len \in OuterLens, kinds \in SubSeqs,
          terminated \in BOOLEAN :
       \E inner \in {SubsBytes(version, IF terminated THEN Append(kinds, "end") ELSE kinds)} :
       \E whole \in {ChunkBytes(version, typecode,
                                  CASE len = "exact" -> Len(inner) [] len = "zero" -> 0
                                    [] OTHER -> -1, inner) \o Zeros(TailLen)} :
           \* the byte source may end inside the outer header
           data \in {whole, SubSeq(whole, 1, 6)}
    /\ position = 0
    /\ chunk_begin = NoBegin
    /\ chunks = <<>>
    /\ ret = NoTRet
    /\ pc = "table"
    /\ ops = 0

\* a table decode on the Reader has returned r; op tells the table in an outer chunk
\* from the bare table of the properties of a V1 archive
TableReturn(record, fails, r) ==
    /\ position' = r.m.pos
    /\ version' = r.m.ver
    /\ chunk_begin' = r.m.cb
    /\ chunks' = <<>>
    /\ ret' = [op |-> IF record = "Properties" /\ version = "V1" THEN "bare" ELSE "table",
               record |-> record, kind |-> r.kind, err |-> r.err,
               pre |-> position, table |-> r.m.table, subs |-> r.m.subs, fails |-> fails,
               open |-> Len(r.m.cs)]
    /\ pc' = "done"
    /\ UNCHANGED <<debug_assertions, data, ops>>

\* Settings::deserialize(&mut Reader)
SettingsDecode ==
    /\ pc = "table"
    /\ \E fails \in BOOLEAN :
       \E r \in {SettingsDeserialize(TheReader, fails)} : TableReturn("Settings", fails, r)

\* Properties::deserialize(&mut Reader)
PropertiesDecode ==
    /\ pc = "table"
    /\ \E fails \in BOOLEAN :
       \E r \in {PropertiesDeserialize(TheReader, fails)} :
           TableReturn("Properties", fails, r)

NextTable ==
    \/ SettingsDecode
    \/ PropertiesDecode

SpecTable == InitTable /\ [][NextTable]_vars

\* the outer chunk of the table, as it lies at the start of the byte source
OuterTypecode == U32At(0)
OuterHeaderEnd == 4 + size_of_length(version)
\* the value of the chunk header that lies at position at, and that value as a length
ValueAt(at) ==
    IF size_of_length(version) = 8
    THEN <<data[at + 12], data[at + 11], data[at + 10], data[at + 9],
           data[at + 8], data[at + 7], data[at + 6], data[at + 5]>>
    ELSE Widen(U32At(at), <<data[at + 8], data[at + 7], data[at + 6], data[at + 5]>>)
LengthAt(at) == AsU64(ValueAt(at))
OuterLength == LengthAt(0)
\* the table typecode and the table fields the record of the last decode declares
Declared == IF ret.record = "Settings" THEN SETTINGS_TABLE ELSE PROPERTIES_TABLE
DeclaredFields == IF ret.record = "Settings" THEN SettingsFields ELSE PropertiesV2Fields
\* the byte source holds the whole header of the outer chunk
HasOuter == Len(data) >= OuterHeaderEnd
Mismatched == ret.op = "table" /\ HasOuter /\ OuterTypecode # Declared
\* the outer chunk can be opened as a sub-stream and closed by a seek to its end
OuterOpens == OuterLength >= 1 /\ OuterHeaderEnd + OuterLength <= U64Max
ReturnedDefault ==
    /\ ret.kind = "Ok"
    /\ ret.table = DefaultTable(DeclaredFields)
    /\ ret.subs = <<>>
    /\ position = OuterHeaderEnd + OuterLength

\* C15 as it is stated: a wrapped table whose outer typecode differs from the declared
\* one returns the default record and leaves the parent at outer header-end + outer
\* length. Violated by an outer chunk of length zero (EmptyChunk)
C15_AsClaimed == Mismatched => ReturnedDefault

\* C15: a wrapped table whose outer chunk has a typecode other than the declared one,
\* and a non-zero length L with header-end + L representable, returns Ok with the
\* default record, having read no sub-chunk and decoded no field, and leaves the
\* parent at outer header-end + L
C15_MismatchedOuter == Mismatched /\ OuterOpens => ReturnedDefault

C15_Witness ==
    /\ Mismatched
    /\ OuterOpens
    /\ ret.record = "Settings"
    /\ OuterTypecode = PROPERTIES_TABLE
    /\ Len(data) >= OuterHeaderEnd + 4
    /\ U32At(OuterHeaderEnd) = SETTINGS_CURRENT_COLOR
    /\ ret.kind = "Ok"
    /\ position = Len(data) - TailLen


Entered == ret.op = "table" /\ HasOuter /\ OuterTypecode = Declared /\ OuterLength >= 1
\* the i-th sub-chunk the last decode opened: its typecode is none the table knows
IsUnknown(i) == ret.subs[i].typecode \notin DeclaredFields \union {ENDOFTABLE}
SubEnd(i) == ret.subs[i].payload + LengthAt(ret.subs[i].at)
\* the i-th sub-chunk ends inside the outer chunk
SubFits(i) == SubEnd(i) <= OuterHeaderEnd + OuterLength /\ SubEnd(i) <= U64Max
\* the typecode of the chunk header the decode has read last
LastHeaderTypecode == U32At(position - OuterHeaderEnd)

\* C17 as it is stated: no sub-chunk with an unknown typecode makes a table decode
\* fail. Violated by an unknown sub-chunk of length zero (EmptyChunk)
C17_AsClaimed ==
    Entered /\ ret.kind = "Err" /\ ret.err = "EmptyChunk" =>
        LastHeaderTypecode \in DeclaredFields \union {ENDOFTABLE}

\* C17: a sub-chunk of non-zero length that ends inside the outer chunk and has an
\* unknown typecode never makes a table decode fail; Settings (RhinoDeserialize) skips
\* it without assigning a field and goes on with the sibling right after it, so that
\* recognised chunks after it are decoded; the other wrapped tables end normally at it
C17_UnknownSubChunk ==
    Entered =>
        /\ \A i \in 1..Len(ret.subs) :
               IsUnknown(i) /\ SubFits(i) =>
                   IF ret.record = "Settings"
                   THEN \/ i < Len(ret.subs) /\ ret.subs[i + 1].at = SubEnd(i)
                        \/ /\ i = Len(ret.subs)
                           /\ ret.kind = "Err"
                           /\ ret.err \in {"UnexpectedEof", "EmptyChunk"}
                           /\ position >= SubEnd(i)
                   ELSE i = Len(ret.subs) /\ (OuterOpens => ret.kind = "Ok")
        /\ \A t \in DeclaredFields :
               ret.table[t] # <<>> => \E j \in 1..Len(ret.subs) : ret.subs[j].typecode = t
        /\ \A j \in 1..Len(ret.subs) :
               /\ ret.subs[j].typecode \in DeclaredFields
               /\ j < Len(ret.subs) \/ ret.kind = "Ok"
               => ret.table[ret.subs[j].typecode] # <<>>

C17_Witness ==
    /\ Entered
    /\ ret.record = "Settings"
    /\ Len(ret.subs) = 3
    /\ IsUnknown(1)
    /\ ret.subs[2].typecode = SETTINGS_CURRENT_COLOR
    /\ ret.subs[2].at = SubEnd(1)
    /\ ret.table[SETTINGS_CURRENT_COLOR] # <<>>
    /\ ret.kind = "Ok"


\* C18: a wrapped table whose sub-chunk sequence reaches a chunk with typecode
\* ENDOFTABLE terminates normally: the decode returns Ok with the fields decoded so
\* far, opens no further sub-chunk and leaves the parent just past the outer chunk.
\* Violated by an ENDOFTABLE chunk of length zero: opening it fails with EmptyChunk
\* before its typecode is looked at
C18_EndOfTable ==
    Entered /\ OuterOpens =>
        /\ \A i \in 1..Len(ret.subs) :
               ret.subs[i].typecode = ENDOFTABLE =>
                   /\ i = Len(ret.subs)
                   /\ ret.kind = "Ok"
                   /\ position = OuterHeaderEnd + OuterLength
        /\ ret.kind = "Err" /\ ret.err = "EmptyChunk" => LastHeaderTypecode # ENDOFTABLE


\* the last decode failed inside a sub-chunk of the table: the outer chunk and the
\* sub-chunk were both open when the error was returned
FailedInSub == Entered /\ OuterOpens /\ ret.kind = "Err" /\ ret.open = 2 /\ ret.subs # <<>>
LastSub == Len(ret.subs)

-----------------------------------------------------------------------------
(* Specification of the records with a chunk version (big_chunk_version) *)

\* bytes of record body after the version byte
MaxBody == 8

RecordNames ==
    {"NotesV2", "RevisionHistoryV2", "MeshParameters", "Annotation", "Attributes", "PlugIn"}
\* #[big_chunk_version(major OPERATOR VALUE)] and #[normal_chunk] of each record
StructAttrs(name) ==
    IF name = "PlugIn" THEN [operator |-> ">", value |-> 1, normal_chunk |-> TRUE]
    ELSE [operator |-> "==", value |-> 1, normal_chunk |-> FALSE]
\* the fixed-size fields a record body starts with: how many, and of how many bytes
LeadingFields(name) ==
    CASE name = "PlugIn" -> [count |-> 0, size |-> 4]
      [] name \in {"Annotation", "Attributes"} -> [count |-> 1, size |-> 8]
      [] OTHER -> [count |-> 1, size |-> 4]

quote_operator_m(operator, major_version, value) == TRUE
\* `chunk_version.major() #quote_operator #value`
quote_operator(operator, major_version, value) ==
    CASE operator = "==" -> major_version = value
      [] operator = ">" -> major_version > value
      [] operator = "<" -> major_version < value
      [] OTHER -> major_version # value

\* chunk::BigVersion::deserialize and chunk::NormalVersion::deserialize: one byte,
\* major in the high nibble and minor in the low one
BigVersionDeserialize(m) == U8Deserialize(m)

\* #struct_deserialize, as far as the leading fields
struct_deserialize(m, name) ==
    Numbers(m, LeadingFields(name).count, LeadingFields(name).size)

\* the deserialize of a record with #[big_chunk_version(major OPERATOR VALUE)]
deserialize_body(m, name) ==
    LET attrs == StructAttrs(name)
        Versioned(chunk_version) ==
            IF chunk_version.kind # "Ok"
            THEN FieldResult(chunk_version.kind, chunk_version.err, chunk_version.m, <<>>)
            ELSE IF quote_operator(attrs.operator, major(chunk_version.value), attrs.value)
                 THEN struct_deserialize(chunk_version.m, name)
            ELSE FieldResult("Ok", "-", chunk_version.m, <<>>)
        \* `let mut chunk = chunk::Chunk::deserialize(deserializer)?;`
        Framed(chunk) ==
            IF chunk.kind # "Ok" THEN FieldResult(chunk.kind, chunk.err, chunk.m, <<>>)
            ELSE Bind(BigVersionDeserialize(chunk.m), Versioned)
    IN  IF attrs.normal_chunk THEN Bind(ChunkDeserialize(m), Framed)
        ELSE Bind(BigVersionDeserialize(m), Versioned)

\* version bytes: every major, with three minors
VersionBytes == {16 * h + l : h \in 0..15, l \in {0, 1, 15}}
\* a version byte and the bytes after it, bare and in a chunk of its own
VersionedBodies == {<<b>> \o [i \in 1..n |-> i] : b \in VersionBytes, n \in 0..MaxBody}

NoRRet == [op |-> "none", record |-> "-", kind |-> "-", err |-> "-", pre |-> 0, value |-> <<>>]

InitRecord ==
    /\ debug_assertions \in BOOLEAN
    /\ version \in TableVersions
    /\ \E body \in VersionedBodies \union {<<>>} :
           data \in {body, ChunkBytes(version, UNKNOWN, Len(body), body)}
    /\ position = 0
    /\ chunk_begin = NoBegin
    /\ chunks = <<>>
    /\ ret = NoRRet
    /\ pc = "record"
    /\ ops = 0

\* <record>::deserialize(&mut Reader)
RecordDecode ==
    /\ pc = "record"
    /\ \E name \in RecordNames :
       \E r \in {deserialize_body(TheReader, name)} :
           /\ position' = r.m.pos
           /\ version' = r.m.ver
           /\ chunk_begin' = r.m.cb
           /\ ret' = [op |-> "record", record |-> name, kind |-> r.kind, err |-> r.err,
                      pre |-> position, value |-> r.value]
           /\ pc' = "done"
    /\ UNCHANGED <<debug_assertions, data, chunks, ops>>

NextRecord == RecordDecode

SpecRecord == InitRecord /\ [][NextRecord]_vars

\* where the version byte of the record of the last decode lies: at the start, or
\* after the header of the record's own chunk
VersionAt == IF StructAttrs(ret.record).normal_chunk THEN OuterHeaderEnd ELSE 0
\* the decode has read a version byte
VersionRead ==
    /\ ret.op = "record"
    /\ Len(data) > VersionAt
    /\ StructAttrs(ret.record).normal_chunk => LengthAt(0) >= 1
MajorRead == data[VersionAt + 1] \div 16
PredicateHolds == IF ret.record = "PlugIn" THEN MajorRead > 1 ELSE MajorRead = 1

\* C20: a record declared with a chunk-major-version predicate whose version byte
\* fails the predicate decodes to Ok with the record's default value, having consumed
\* the version byte and no byte of the record body
C20_PredicateFails ==
    VersionRead /\ ~PredicateHolds =>
        /\ ret.kind = "Ok"
        /\ ret.value = <<>>
        /\ position = VersionAt + 1

C20_Witness ==
    /\ VersionRead
    /\ ~PredicateHolds
    /\ ret.record = "MeshParameters"
    /\ data[1] = 32
    /\ Len(data) >= 5
    /\ ret.kind = "Ok"
    /\ ret.value = <<>>
    /\ position = 1


-----------------------------------------------------------------------------
(* Specification of Annotation::deserialize: fields with a minor-version predicate *)

\* bytes of the byte source after the last byte a full Annotation takes
AnnotationTail == 2
\* code units of face_name, the NUL included
MaxUnits == 3

\* a field of a plain struct: its type, whether #[padding(i32)] precedes it, and its
\* #[big_chunk_version(minor OPERATOR VALUE)] (<<>> when it has none)
StructField(name, type, padding, gate) ==
    [name |-> name, type |-> type, padding |-> padding, gate |-> gate]
\* the fields of Annotation, in declaration order
AnnotationFields ==
    << StructField("dim_scale", "f64", FALSE, <<>>),
       StructField("text_height", "f64", FALSE, <<>>),
       StructField("dim_exe", "f64", FALSE, <<>>),
       StructField("dim_exo", "f64", FALSE, <<>>),
       StructField("arrow_length", "f64", FALSE, <<>>),
       StructField("arrow_width", "f64", FALSE, <<>>),
       StructField("center_mark", "f64", FALSE, <<>>),
       StructField("dim_units", "i32", FALSE, <<>>),
       StructField("arrow_type", "i32", FALSE, <<>>),
       StructField("angular_units", "i32", FALSE, <<>>),
       StructField("length_format", "i32", FALSE, <<>>),
       StructField("angle_format", "i32", FALSE, <<>>),
       StructField("resolution", "i32", TRUE, <<>>),
       StructField("face_name", "WStringWithLength", FALSE, <<>>),
       StructField("world_view_text_scale", "f64", FALSE, <<">", 0>>),
       StructField("enable_annotation_scaling", "u8", FALSE, <<">", 0>>),
       StructField("world_view_hatch_scale", "f64", FALSE, <<">", 1>>),
       StructField("enable_hatch_scaling", "u8", FALSE, <<">", 1>>),
       StructField("enable_model_space_annotation_scaling", "u8", FALSE, <<">", 2>>),
       StructField("enable_layout_space_annotation_scaling", "u8", FALSE, <<">", 2>>) >>

\* size_of of the numeric types
SizeOf(type) == CASE type = "f64" -> 8 [] type = "i32" -> 4 [] OTHER -> 1
\* #field_ty::default(): a number of zero bytes, the empty string
DefaultOf(type) == IF type = "WStringWithLength" THEN <<>> ELSE Zeros(SizeOf(type))
\* Self::default()
DefaultStruct(fields) ==
    [name \in {fields[i].name : i \in 1..Len(fields)} |->
        DefaultOf(fields[CHOOSE i \in 1..Len(fields) : fields[i].name = name].type)]

\* a number as a field value
NumberField(m, n) ==
    LET Got(r) == FieldResult(r.kind, r.err, At(m, r.pos), r.num)
    IN  Bind(NumDeserialize(m.cs, m.pos, n), Got)

\* WStringWithLength::deserialize: a u32 count of 16-bit code units, the last of them
\* the NUL; the value is the count - 1 code units before the NUL.  A count of 0 has no
\* outcome in the specification; it fails the decode here
WStringWithLengthDeserialize(m) ==
    LET Counted(c) ==
            LET count == c.value[4] + 256 * c.value[3]
                Units(r) ==
                    IF r.kind # "Ok" THEN FieldResult(r.kind, r.err, At(m, r.pos), <<>>)
                    ELSE FieldResult("Ok", "-", At(m, r.pos),
                                     [i \in 1..(count - 1) |->
                                         <<data[r.val + 2 * i], data[r.val + 2 * i - 1]>>])
            IN  IF c.kind # "Ok" THEN c
                ELSE IF count = 0 THEN FieldResult("Err", "Invalid length", c.m, <<>>)
                ELSE Bind(ReadExact(c.m.cs, c.m.pos, c.m.pos, 2 * count), Units)
    IN  Bind(NumberField(m, 4), Counted)

\* #field_deserialize: #field_ty::deserialize(deserializer)?
field_deserialize(m, type) ==
    IF type = "WStringWithLength" THEN WStringWithLengthDeserialize(m)
    ELSE NumberField(m, SizeOf(type))

RECURSIVE StructFields(_, _, _, _, _)
\* Ok(Self {#(#fields_iter),*}): the fields from the i-th on, in declaration order; a
\* field whose minor-version predicate fails is #field_ty::default() and reads nothing
StructFields(m, chunk_version, fields, i, value) ==
    IF i > Len(fields) THEN FieldResult("Ok", "-", m, value)
    ELSE
    LET f == fields[i]
        Rest(r) ==
            IF r.kind # "Ok" THEN FieldResult(r.kind, r.err, r.m, value)
            ELSE StructFields(r.m, chunk_version, fields, i + 1,
                              [value EXCEPT ![f.name] = r.value])
        Padded(p) ==
            IF p.kind # "Ok" THEN FieldResult(p.kind, p.err, p.m, value)
            ELSE Bind(field_deserialize(p.m, f.type), Rest)
    IN  IF f.gate # <<>> /\ ~quote_operator(f.gate[1], minor(chunk_version), f.gate[2])
        THEN StructFields(m, chunk_version, fields, i + 1, value)
        ELSE IF f.padding THEN Bind(NumberField(m, 4), Padded)
        ELSE Bind(field_deserialize(m, f.type), Rest)

\* Annotation::deserialize: #[big_chunk_version(major == 1)]
AnnotationDeserialize(m) ==
    LET Versioned(chunk_version) ==
            IF chunk_version.kind # "Ok"
            THEN FieldResult(chunk_version.kind, chunk_version.err, chunk_version.m,
                             DefaultStruct(AnnotationFields))
            ELSE IF quote_operator("==", major(chunk_version.value), 1)
                 THEN StructFields(chunk_version.m, chunk_version.value, AnnotationFields, 1,
                                   DefaultStruct(AnnotationFields))
            ELSE FieldResult("Ok", "-", chunk_version.m, DefaultStruct(AnnotationFields))
    IN  Bind(BigVersionDeserialize(m), Versioned)


\* the bytes of a full Annotation after the version byte: the fields before face_name,
\* face_name with count code units, then tail bytes
AnnotationBody(count, tail) ==
    [i \in 1..84 |-> 1 + (i % 200)] \o <<count, 0, 0, 0>>
    \o [i \in 1..(2 * count) |-> IF i > 2 * count - 2 THEN 0 ELSE 96 + (i % 2)]
    \o [i \in 1..tail |-> 200 + i]

NoNRet == [op |-> "none", kind |-> "-", err |-> "-", pre |-> 0, value |-> <<>>]

InitAnnotation ==
    /\ debug_assertions \in BOOLEAN
    /\ version = "V50"
    /\ \E b \in VersionBytes, count \in 1..MaxUnits, tail \in 0..(20 + AnnotationTail) :
           data = <<b>> \o AnnotationBody(count, tail)
    /\ position = 0
    /\ chunk_begin = NoBegin
    /\ chunks = <<>>
    /\ ret = NoNRet
    /\ pc = "annotation"
    /\ ops = 0

\* Annotation::deserialize(&mut Reader)
AnnotationDecode ==
    /\ pc = "annotation"
    /\ \E r \in {AnnotationDeserialize(TheReader)} :
           /\ position' = r.m.pos
           /\ ret' = [op |-> "annotation", kind |-> r.kind, err |-> r.err, pre |-> position,
                      value |-> r.value]
           /\ pc' = "done"
    /\ UNCHANGED <<debug_assertions, data, version, chunk_begin, chunks, ops>>

NextAnnotation == AnnotationDecode

SpecAnnotation == InitAnnotation /\ [][NextAnnotation]_vars

\* the number of n bytes that lies at position p of the byte source
LeAt(p, n) == [i \in 1..n |-> data[p + n + 1 - i]]
\* the minor version and the count of face_name in the byte source
MinorRead == data[1] % 16
FaceNameCount == data[86]
\* where the fields gated by a minor version start
GatedStart == 1 + 84 + 4 + 2 * FaceNameCount
\* the gated fields in declaration order: name, k of `minor > k`, size
GatedFields ==
    << <<"world_view_text_scale", 0, 8>>, <<"enable_annotation_scaling", 0, 1>>,
       <<"world_view_hatch_scale", 1, 8>>, <<"enable_hatch_scaling", 1, 1>>,
       <<"enable_model_space_annotation_scaling", 2, 1>>,
       <<"enable_layout_space_annotation_scaling", 2, 1>> >>
RECURSIVE GatedOffset(_)
\* where the j-th gated field lies if it is read: after the gated fields before it
\* that are read
GatedOffset(j) ==
    IF j = 1 THEN GatedStart
    ELSE GatedOffset(j - 1)
         + (IF MinorRead > GatedFields[j - 1][2] THEN GatedFields[j - 1][3] ELSE 0)
GatedEnd == GatedOffset(Len(GatedFields) + 1)
\* the numeric fields without a predicate: name, offset in the byte source, size
UngatedNumbers ==
    << <<"dim_scale", 1, 8>>, <<"text_height", 9, 8>>, <<"dim_exe", 17, 8>>,
       <<"dim_exo", 25, 8>>, <<"arrow_length", 33, 8>>, <<"arrow_width", 41, 8>>,
       <<"center_mark", 49, 8>>, <<"dim_units", 57, 4>>, <<"arrow_type", 61, 4>>,
       <<"angular_units", 65, 4>>, <<"length_format", 69, 4>>, <<"angle_format", 73, 4>>,
       <<"resolution", 81, 4>> >>
AnnotationAtMajor1 == ret.op = "annotation" /\ data[1] \div 16 = 1 /\ Len(data) >= GatedEnd

\* C21: Annotation with version byte major = 1, minor = m: after the ungated fields,
\* each field gated by minor > k is read from the stream iff m > k, in declaration
\* order, and is its default, consuming no byte, otherwise; the ungated fields are the
\* same for every m, so the decodes with 0x10 and 0x11 differ only in
\* world_view_text_scale and enable_annotation_scaling
C21_MinorGates ==
    AnnotationAtMajor1 =>
        /\ ret.kind = "Ok"
        /\ position = GatedEnd
        /\ \A j \in 1..Len(GatedFields) :
               ret.value[GatedFields[j][1]] =
                   IF MinorRead > GatedFields[j][2]
                   THEN LeAt(GatedOffset(j), GatedFields[j][3])
                   ELSE Zeros(GatedFields[j][3])
        /\ \A j \in 1..Len(UngatedNumbers) :
               ret.value[UngatedNumbers[j][1]] =
                   LeAt(UngatedNumbers[j][2], UngatedNumbers[j][3])
        /\ Len(ret.value.face_name) = FaceNameCount - 1

C21_Witness ==
    /\ AnnotationAtMajor1
    /\ data[1] = 17
    /\ Len(data) > GatedEnd
    /\ ret.kind = "Ok"
    /\ ret.value.world_view_text_scale = LeAt(GatedStart, 8)
    /\ ret.value.world_view_text_scale # Zeros(8)
    /\ ret.value.enable_annotation_scaling # Zeros(1)
    /\ ret.value.world_view_hatch_scale = Zeros(8)
    /\ position = GatedStart + 9


(* ------------------------------------------------------------------------------- *)
(* Specification of GregorianDateBuilder::build: a date from a day of the year      *)

\* GregorianDate::FIRST_YEAR
FIRST_YEAR == 1582
\* the largest day of the year given to the builder, besides u16::MAX
MaxDay == 367
U16Max == 65535

\* GregorianDate
GregorianDate(year, month, day_of_month) ==
    [year |-> year, month |-> month, day_of_month |-> day_of_month]

is_leap_year(date) ==
    /\ 1624 <= date.year
    /\ date.year % 4 = 0
    /\ (date.year % 400 = 0 \/ date.year % 100 # 0)

day_of_year(date) ==
    LET extra_day == IF is_leap_year(date) THEN 1 ELSE 0
    IN  CASE date.month = 1 -> date.day_of_month
          [] date.month = 2 -> 31 + date.day_of_month
          [] date.month = 3 -> 59 + date.day_of_month + extra_day
          [] date.month = 4 -> 90 + date.day_of_month + extra_day
          [] date.month = 5 -> 120 + date.day_of_month + extra_day
          [] date.month = 6 -> 151 + date.day_of_month + extra_day
          [] date.month = 7 -> 181 + date.day_of_month + extra_day
          [] date.month = 8 -> 212 + date.day_of_month + extra_day
          [] date.month = 9 -> 243 + date.day_of_month + extra_day
          [] date.month = 10 -> 273 + date.day_of_month + extra_day
          [] date.month = 11 -> 304 + date.day_of_month + extra_day
          [] date.month = 12 -> 334 + date.day_of_month + extra_day
          [] OTHER -> 0

month_days_m(date) == 30
month_days(date) ==
    CASE date.month \in {1, 3, 5, 7, 8, 10, 12} -> 31
      [] date.month \in {4, 6, 9, 11} -> 30
      [] date.month = 2 -> IF is_leap_year(date) THEN 29 ELSE 28
      [] OTHER -> 0

year_days(date) == IF is_leap_year(date) THEN 366 ELSE 365

first_of_month(date) == [date EXCEPT !.day_of_month = 1]
last_of_month(date) == [date EXCEPT !.day_of_month = month_days(date)]

\* the years and the days of the year given to the builder
Years == {0, 1581, FIRST_YEAR, 1583, 1600, 1623, 1624, 1625, 1700, 1996, 2000, 2023, 2024,
          2100, U16Max}
DaysOfYear == 0..MaxDay \cup {U16Max}

NoDRet == [op |-> "none", kind |-> "-", err |-> "-", year |-> 0, day_of_year |-> 0,
           date |-> GregorianDate(0, 0, 0)]
DateReturn(kind, err, date) == [ret EXCEPT !.kind = kind, !.err = err, !.date = date]

\* GregorianDateBuilder::new().year(y).day_of_year(d)
InitDate ==
    /\ debug_assertions \in BOOLEAN
    /\ data = <<>>
    /\ position = 0
    /\ version = "V1"
    /\ chunk_begin = NoBegin
    /\ chunks = <<>>
    /\ \E y \in Years, d \in DaysOfYear :
           ret = [NoDRet EXCEPT !.op = "build", !.year = y, !.day_of_year = d]
    /\ pc = "build"
    /\ ops = 0

\* GregorianDateBuilder::build, up to its call of to_month_and_day
Build ==
    /\ pc = "build"
    /\ IF FIRST_YEAR > ret.year
       THEN ret' = DateReturn("Err", "InvalidYear", ret.date) /\ pc' = "done"
       ELSE \E date \in {GregorianDate(ret.year, 1, 1)} :
                IF 1 > ret.day_of_year \/ year_days(date) < ret.day_of_year
                THEN ret' = DateReturn("Err", "InvalidDayOfYear", ret.date) /\ pc' = "done"
                ELSE /\ ret' = DateReturn("-", "-",
                                    [date EXCEPT !.month = (ret.day_of_year \div 30) % 256])
                     /\ pc' = "to_month_and_day"
    /\ UNCHANGED <<debug_assertions, data, position, version, chunk_begin, chunks, ops>>

\* one call of GregorianDateBuilder::to_month_and_day: it calls itself with the month
\* before or the month after, or returns the date to build, which returns Ok(date)
ToMonthAndDay ==
    /\ pc = "to_month_and_day"
    /\ \E date \in {ret.date}, d \in {ret.day_of_year} :
           IF d < day_of_year(first_of_month(date))
           THEN IF date.month = 0 /\ debug_assertions
                THEN ret' = DateReturn("Panic", "attempt to subtract with overflow", date)
                     /\ pc' = "done"
                ELSE ret' = DateReturn("-", "-", [date EXCEPT !.month = (date.month + 255) % 256])
                     /\ pc' = "to_month_and_day"
           ELSE IF d > day_of_year(last_of_month(date))
           THEN IF date.month = 255 /\ debug_assertions
                THEN ret' = DateReturn("Panic", "attempt to add with overflow", date)
                     /\ pc' = "done"
                ELSE ret' = DateReturn("-", "-", [date EXCEPT !.month = (date.month + 1) % 256])
                     /\ pc' = "to_month_and_day"
           ELSE IF debug_assertions
                   /\ (d < day_of_year(date)
                       \/ date.day_of_month + ((d - day_of_year(date)) % 256) > 255)
                THEN ret' = DateReturn("Panic", "arithmetic overflow", date) /\ pc' = "done"
                ELSE /\ ret' = DateReturn("Ok", "-",
                                   [date EXCEPT !.day_of_month =
                                       (date.day_of_month
                                        + (((d - day_of_year(date)) % 65536) % 256)) % 256])
                     /\ pc' = "done"
    /\ UNCHANGED <<debug_assertions, data, position, version, chunk_begin, chunks, ops>>

NextDate == Build \/ ToMonthAndDay

\* a call of build runs until it returns
SpecDate == InitDate /\ [][NextDate]_vars /\ WF_vars(NextDate)

ValidDayOfYear ==
    /\ ret.year >= FIRST_YEAR
    /\ 1 <= ret.day_of_year
    /\ ret.day_of_year <= year_days(GregorianDate(ret.year, 1, 1))
BuildReturned == ret.op = "build" /\ pc = "done"

\* C22: for every year y >= 1582, build of year(y).day_of_year(d) terminates; with
\* 1 <= d <= year_days(y) it returns a date with 1 <= month <= 12,
\* 1 <= day_of_month <= month_days and day_of_year() = d, and with d = 0 or
\* d > year_days(y) it returns InvalidDayOfYear
C22_DayOfYear ==
    /\ [](BuildReturned /\ ret.year >= FIRST_YEAR =>
            IF ValidDayOfYear
            THEN /\ ret.kind = "Ok"
                 /\ ret.date.year = ret.year
                 /\ ret.date.month \in 1..12
                 /\ ret.date.day_of_month \in 1..month_days(ret.date)
                 /\ day_of_year(ret.date) = ret.day_of_year
            ELSE ret.kind = "Err" /\ ret.err = "InvalidDayOfYear")
    /\ (ret.op = "build" ~> pc = "done")

\* the last day of a leap year, found two months after the month build starts from
C22_Witness ==
    /\ BuildReturned
    /\ ret.year = 2024
    /\ ret.day_of_year = 366
    /\ ret.kind = "Ok"
    /\ ret.date = GregorianDate(2024, 12, 31)


(* Signedness of the 4-byte length field read by Value::deserialize *)

\* the length field of the comment chunk, read with the signedness its own typecode
\* dictates: negative when the typecode gives a signed field with the top bit set
OwnLengthIsNegative ==
    /\ ~is_unsigned(CommentTypecode)
    /\ data[ret.pre + 8] >= 128

\* C23: a 4-byte chunk length field is decoded with the signedness dictated by the
\* typecode of that same chunk, not by the typecode of an earlier chunk: the length
\* of a COMMENTBLOCK chunk, an unsigned field, is refused as negative only when it
\* is zero. Violated through a deserializer whose last chunk header had a typecode
\* with the SHORT bit: Value::deserialize takes the signedness from that header
C23_OwnTypecode ==
    /\ ret.op = "comment"
    /\ size_of_length(ret.ver) = 4
    /\ CommentTypecode = COMMENTBLOCK
    /\ Len(data) >= PayloadStart
    => (ret.err = "Negative length" <=> (CommentLength = 0 \/ OwnLengthIsNegative))


\* C24 (as claimed): a successful seek through a sub-stream with offset o and length L
\* moves the parent to o + v for Start(v), o + (L - 1) + v for End(v) and c + v for
\* Current(v), c the parent's position before, and returns that position minus o.
\* Violated from the end of a sub-stream whose end position o + (L - 1) is not
\* representable: without overflow checks the base of the seek wraps
C24_SeekPositions ==
    (pc = "open" /\ ret.op = "seek" /\ ret.kind = "Ok")
        => /\ position = SeekTarget
           /\ ret.val = position - TheChunk.offset


-----------------------------------------------------------------------------
(* Claims about the iteration over the sub-chunks, in an outer chunk or bare *)

\* the last decode iterated over sub-chunks: a wrapped table whose outer chunk was
\* entered, or the bare table of the properties of a V1 archive
Iterated == ret.op = "bare" \/ Entered
\* the typecodes that have a field arm in the table of the last decode
FieldTypecodes == IF ret.op = "bare" THEN PropertiesV1Fields ELSE DeclaredFields
Recognised(i) == ret.subs[i].typecode \in FieldTypecodes
\* the sub-streams open while a field of a sub-chunk is decoded
SubDepth == IF ret.op = "bare" THEN 1 ELSE 2
HeaderSize == 4 + size_of_length(version)

\* C25: after a recognised sub-chunk with payload [P, P + L) has been processed, the
\* next sub-chunk header is read starting at exactly P + L, however many of the L
\* bytes the field decoder consumed: the next sub-chunk opened starts there, and a
\* header that cannot be read or opened fails between P + L and the end of a header
\* that starts there
C25_NextHeader ==
    Iterated =>
        \A i \in 1..Len(ret.subs) :
            Recognised(i) =>
                \/ i < Len(ret.subs) /\ ret.subs[i + 1].at = SubEnd(i)
                \/ /\ i = Len(ret.subs)
                   /\ ret.kind # "Ok"
                   /\ \/ ret.open = SubDepth
                      \/ /\ ret.open = SubDepth - 1
                         /\ position >= SubEnd(i)
                         /\ position <= SubEnd(i) + HeaderSize

\* a colour of eight bytes decoded from a payload of ten, the header of the chunk
\* after it read ten bytes after the start of the payload, and the header after that
\* chunk, none of whose bytes were consumed, read at its end
C25_Witness ==
    /\ Entered
    /\ ret.kind = "Ok"
    /\ Len(ret.subs) = 3
    /\ ret.subs[1].typecode = SETTINGS_CURRENT_COLOR
    /\ LengthAt(ret.subs[1].at) = 10
    /\ ret.table[SETTINGS_CURRENT_COLOR] # <<>>
    /\ ret.subs[2].at = ret.subs[1].payload + 10
    /\ ret.subs[2].typecode = SETTINGS_UNITSANDTOLS
    /\ ret.subs[3].at = SubEnd(2)


\* the value the field arm of the i-th sub-chunk decodes, from the byte source
ValueOfSub(i) ==
    CASE ret.subs[i].typecode = SETTINGS_CURRENT_COLOR ->
             <<U32At(ret.subs[i].payload), U32At(ret.subs[i].payload + 4)>>
      [] ret.subs[i].typecode = COMMENTBLOCK ->
             Bytes(ret.subs[i].payload, LengthAt(ret.subs[i].at))
      [] OTHER -> <<"decoded">>
\* the sub-chunks with typecode t, and the last of them
SubsOf(t) == {i \in 1..Len(ret.subs) : ret.subs[i].typecode = t}
LastOf(t) == CHOOSE i \in SubsOf(t) : \A j \in SubsOf(t) : j <= i

\* C26: when a table holds several sub-chunks with the same recognised typecode, the
\* field holds the value decoded from the last of them, and the fields of the other
\* typecodes are what their own sub-chunks make them: the value of the last sub-chunk
\* of their typecode, or the default when there is none
C26_LastWins ==
    Iterated /\ ret.kind = "Ok" =>
        \A t \in FieldTypecodes :
            ret.table[t] = IF SubsOf(t) = {} THEN <<>> ELSE ValueOfSub(LastOf(t))

\* two comments with a summary between them: the comment is the second one
C26_Witness ==
    /\ ret.op = "bare"
    /\ ret.kind = "Ok"
    /\ Len(ret.subs) = 4
    /\ SubsOf(COMMENTBLOCK) = {1, 3}
    /\ SubsOf(SUMMARY) = {2}
    /\ ValueOfSub(1) = <<97, 98>>
    /\ ret.table[COMMENTBLOCK] = <<99>>
    /\ ret.table[SUMMARY] = <<"decoded">>
    /\ ret.table[NOTES] = <<>>


-----------------------------------------------------------------------------
(* Specification of on_version::Version and its date format *)

\* Mask::max_value of MINOR_VERSION_MASK (size 7) and of PLATFORM_MASK (size 2)
MINOR_VERSION_MAX == 127
PLATFORM_MAX == 3
MAJOR_VERSION_DEBUG == 9
MAJOR_VERSION_MAX == 7
\* the DateFormatVersion that is read as major version 5
LEGACY_V5 == 200612060

\* GregorianDateBuilder::build of year(year).month_and_day(month, day)
BuildMonthAndDay(year, month, day) ==
    LET date == GregorianDate(year, month, day)
    IN  IF FIRST_YEAR > year THEN [kind |-> "Err", err |-> "InvalidYear", date |-> date]
        ELSE IF 1 > month \/ 12 < month
             THEN [kind |-> "Err", err |-> "InvalidMonth", date |-> date]
        ELSE IF 1 > day \/ month_days(date) < day
             THEN [kind |-> "Err", err |-> "InvalidDayOfMonth", date |-> date]
        ELSE [kind |-> "Ok", err |-> "-", date |-> date]

\* #[derive(PartialOrd)] of GregorianDate: year, then month, then day_of_month
DateLess(a, b) ==
    \/ a.year < b.year
    \/ a.year = b.year /\ a.month < b.month
    \/ a.year = b.year /\ a.month = b.month /\ a.day_of_month < b.day_of_month

MIN_DATE == GregorianDate(2000, 12, 21)
MAX_DATE == GregorianDate(2099, 12, 31)

OnVersion(major_version, minor_version, date, platform) ==
    [major_version |-> major_version, minor_version |-> minor_version, date |-> date,
     platform |-> platform]
OnVersionResult(kind, err, v) == [kind |-> kind, err |-> err, v |-> v]

\* on_version::Version::new
OnVersionNew(major_version, minor_version, date, platform) ==
    LET v == OnVersion(major_version, minor_version, date, platform)
    IN  IF MAJOR_VERSION_MAX < major_version /\ MAJOR_VERSION_DEBUG # major_version
        THEN OnVersionResult("Err", "InvalidMajorVersion", v)
        ELSE IF MINOR_VERSION_MAX < minor_version
             THEN OnVersionResult("Err", "InvalidMinorVersion", v)
        ELSE IF DateLess(date, MIN_DATE) \/ DateLess(MAX_DATE, date)
             THEN OnVersionResult("Err", "InvalidDate", v)
        ELSE IF PLATFORM_MAX < platform
             THEN OnVersionResult("Err", "InvalidPlatform", v)
        ELSE IF \/ 4 >= major_version /\ 2011 < date.year
                \/ 5 = major_version /\ 2006 > date.year
                \/ 6 = major_version /\ 2012 > date.year
                \/ 7 = major_version /\ 2018 > date.year
             THEN OnVersionResult("Err", "VersionDateMismatch", v)
        ELSE OnVersionResult("Ok", "-", v)

IntoDateFormatVersion_m(v) ==
    v.major_version + v.date.day_of_month * 10 + v.date.month * 10 * 100
    + v.date.year * 10 * 100 * 10
\* impl Into<DateFormatVersion> for Version
IntoDateFormatVersion(v) ==
    v.major_version + v.date.day_of_month * 10 + v.date.month * 10 * 100
    + v.date.year * 10 * 100 * 100

\* impl TryFrom<DateFormatVersion> for Version; a year beyond u16 fails the unwrap
TryFromDateFormatVersion(value) ==
    LET major_version == IF LEGACY_V5 = value THEN 5 ELSE value % 10
        day == (value \div 10) % 100
        month == (value \div (10 * 100)) % 100
        year == value \div (10 * 100 * 100)
        Built(b) ==
            IF b.kind # "Ok" THEN OnVersionResult("Err", "InvalidDate",
                                                  OnVersion(major_version, 0, b.date, 0))
            ELSE OnVersionNew(major_version, 0, b.date, 0)
    IN  IF year > U16Max
        THEN OnVersionResult("Panic", "TryFromIntError", OnVersion(major_version, 0,
                                                                  GregorianDate(0, 0, 0), 0))
        ELSE Bind(BuildMonthAndDay(year, month, day), Built)

\* the arguments given to Version::new
MajorVersions == 0..10 \cup {255}
MinorVersions == {0, 1, MINOR_VERSION_MAX, MINOR_VERSION_MAX + 1}
Platforms == {0, 1, PLATFORM_MAX, PLATFORM_MAX + 1}
VersionYears == {2000, 2001, 2005, 2006, 2007, 2011, 2012, 2017, 2018, 2099, 2100}
VersionMonths == {1, 2, 12}
VersionDays == {1, 6, 20, 21, 29, 31}

NoORet == [op |-> "none", new |-> OnVersionResult("-", "-", <<>>), value |-> 0,
           back |-> OnVersionResult("-", "-", <<>>)]

\* a date the builder has built, and the other arguments of Version::new
InitOnVersion ==
    /\ debug_assertions \in BOOLEAN
    /\ data = <<>>
    /\ position = 0
    /\ version = "V2"
    /\ chunk_begin = NoBegin
    /\ chunks = <<>>
    /\ \E major_version \in MajorVersions, minor_version \in MinorVersions,
          platform \in Platforms, y \in VersionYears, m \in VersionMonths,
          d \in VersionDays :
           /\ BuildMonthAndDay(y, m, d).kind = "Ok"
           /\ ret = [NoORet EXCEPT !.op = "args",
                                   !.new = OnVersionResult("-", "-",
                                               OnVersion(major_version, minor_version,
                                                         GregorianDate(y, m, d), platform))]
    /\ pc = "new"
    /\ ops = 0

\* Version::new(major_version, minor_version, date, platform)
OnVersionNewCall ==
    /\ pc = "new"
    /\ \E v \in {ret.new.v} :
           ret' = [ret EXCEPT !.op = "new",
                              !.new = OnVersionNew(v.major_version, v.minor_version, v.date,
                                                   v.platform)]
    /\ pc' = IF ret'.new.kind = "Ok" THEN "into" ELSE "done"
    /\ UNCHANGED <<debug_assertions, data, position, version, chunk_begin, chunks, ops>>

\* let date_format: DateFormatVersion = version.into()
OnVersionInto ==
    /\ pc = "into"
    /\ ret' = [ret EXCEPT !.op = "into", !.value = IntoDateFormatVersion(ret.new.v)]
    /\ pc' = "try_from"
    /\ UNCHANGED <<debug_assertions, data, position, version, chunk_begin, chunks, ops>>

\* Version::try_from(date_format)
OnVersionTryFrom ==
    /\ pc = "try_from"
    /\ ret' = [ret EXCEPT !.op = "try_from", !.back = TryFromDateFormatVersion(ret.value)]
    /\ pc' = "done"
    /\ UNCHANGED <<debug_assertions, data, position, version, chunk_begin, chunks, ops>>

NextOnVersion == OnVersionNewCall \/ OnVersionInto \/ OnVersionTryFrom

SpecOnVersion == InitOnVersion /\ [][NextOnVersion]_vars

\* a version Version::new accepted has gone to the date format and back
WentAndCameBack == ret.op = "try_from" /\ ret.new.kind = "Ok"
\* the version the conversions make of v when it comes back with major version major
Simplified(v, major_version) == OnVersion(major_version, 0, v.date, 0)

\* C27 as it is stated: every accepted version comes back from the date format with
\* its own major version and date, minor version 0 and platform 0. Violated by major
\* version 0 on 2006-12-06
C27_AsClaimed ==
    WentAndCameBack =>
        /\ ret.back.kind = "Ok"
        /\ ret.back.v = Simplified(ret.new.v, ret.new.v.major_version)

\* C27: every version v that Version::new accepts goes to the date format and comes
\* back, successfully, with v's date, minor version 0 and platform 0, and with v's
\* major version, except that the date format 200612060 (major version 0 on
\* 2006-12-06) comes back with major version 5
C27_RoundTrip ==
    WentAndCameBack =>
        /\ ret.back.kind = "Ok"
        /\ ret.back.v = Simplified(ret.new.v,
                                   IF ret.value = LEGACY_V5 THEN 5
                                   ELSE ret.new.v.major_version)
        /\ ret.value = LEGACY_V5 <=>
               /\ ret.new.v.major_version = 0
               /\ ret.new.v.date = GregorianDate(2006, 12, 6)

\* the debug major version with a minor version and a platform, on the last date
C27_Witness ==
    /\ WentAndCameBack
    /\ ret.new.v = OnVersion(9, 1, MAX_DATE, 1)
    /\ ret.value = 209912319
    /\ ret.back.kind = "Ok"
    /\ ret.back.v = OnVersion(9, 0, MAX_DATE, 0)


\* the fields hold what the sub-chunks opened so far made them
FieldsSoFar ==
    \A t \in FieldTypecodes :
        ret.table[t] = IF SubsOf(t) = {} THEN <<>> ELSE ValueOfSub(LastOf(t))
\* the typecode of the chunk header that ends at the position of the stream
HeaderJustRead == U32At(position - HeaderSize)

\* C29 as it is stated: the bare table ends successfully at the first sub-chunk whose
\* typecode is none of its fields'. Violated by such a chunk of length zero, which
\* cannot be opened (EmptyChunk)
C29_AsClaimed ==
    ret.op = "bare" /\ ret.kind = "Err" /\ ret.err = "EmptyChunk" =>
        HeaderJustRead \in PropertiesV1Fields

\* C29: the bare table of PropertiesV1 ends successfully at the first sub-chunk of
\* non-zero length whose typecode is none of its table_field typecodes, keeping the
\* fields decoded so far, and returns with the stream just after the header of that
\* chunk, neither at its start nor past its payload; it ends successfully in no
\* other way, and a chunk of length zero fails the decode with EmptyChunk
C29_BareTableEnds ==
    ret.op = "bare" =>
        /\ \A i \in 1..Len(ret.subs) :
               ~Recognised(i) =>
                   /\ i = Len(ret.subs)
                   /\ ret.kind = "Ok"
                   /\ FieldsSoFar
                   /\ position = ret.subs[i].at + HeaderSize
                   /\ position = ret.subs[i].payload
                   /\ position < SubEnd(i)
        /\ ret.kind = "Ok" => ret.subs # <<>> /\ ~Recognised(Len(ret.subs))
        /\ ret.kind = "Err" /\ ret.err = "EmptyChunk" =>
               /\ position >= PropertiesV1Start + HeaderSize
               /\ LengthAt(position - HeaderSize) = 0

\* a comment and a summary decoded, then a chunk with an unknown typecode: the stream
\* is left at the first of its two payload bytes
C29_Witness ==
    /\ ret.op = "bare"
    /\ ret.kind = "Ok"
    /\ Len(ret.subs) = 3
    /\ ret.subs[1].typecode = COMMENTBLOCK
    /\ ret.subs[2].typecode = SUMMARY
    /\ ret.subs[3].typecode = UNKNOWN
    /\ ret.table[COMMENTBLOCK] = <<97, 98>>
    /\ ret.table[SUMMARY] = <<"decoded">>
    /\ position = ret.subs[3].payload
    /\ SubEnd(3) = position + 2
    /\ Len(data) >= position + 2


-----------------------------------------------------------------------------
(* Specification of the loop of a table, one iteration at a step *)

LoopRecords == {"Settings", "Properties"}
\* the table of a record: whether it lies in an outer chunk, the fields it declares,
\* and whether its loop skips the typecodes it does not declare
InOuterChunk(record, ver) == ~(record = "Properties" /\ ver = "V1")
FieldsOf(record, ver) ==
    CASE record = "Settings" -> SettingsFields
      [] ver = "V1" -> PropertiesV1Fields
      [] OTHER -> PropertiesV2Fields
SkipsUnknown(record) == record = "Settings"

\* the statements of a table decoder before its loop: the seek to byte 32 of the
\* properties of a V1 archive, or the outer chunk and the test of its typecode.
\* "Continue": the loop is entered
OpenTable(m, record) ==
    LET fresh == [m EXCEPT !.table = DefaultTable(FieldsOf(record, CurVersion(m.cs, m.ver))),
                           !.subs = <<>>]
        Sought(s) ==
            IF s.kind # "Ok" THEN MResult("Panic", s.err, At(fresh, s.pos))
            ELSE MResult("Continue", "-", At(fresh, s.pos))
        Outer(p) ==
            IF p.kind # "Ok" THEN p
            ELSE IF (IF record = "Settings" THEN SETTINGS_TABLE ELSE PROPERTIES_TABLE)
                        = CurBegin(p.m.cs, p.m.cb).typecode
                 THEN MResult("Continue", "-", p.m)
            ELSE SeekEndAndDrop(p.m)
    IN  IF InOuterChunk(record, CurVersion(m.cs, m.ver)) THEN Bind(ChunkDeserialize(fresh), Outer)
        ELSE Bind(Seek(m.cs, m.pos, "Start", PropertiesV1Start), Sought)

\* iterations of a loop
MaxIterations == 2

\* the sub-chunks a loop meets: fields of the three tables, typecodes no table
\* declares with a length of 1, of 0 and of all ones, and the end of a table
LoopKinds == {"wide_color", "comment", "unknown", "empty_unknown", "huge_unknown", "end"}
LoopSeqs == UNION {[1..n -> LoopKinds] : n \in 0..MaxIterations}

\* a Reader at the start of the table of an archive: the properties of a V1 archive,
\* or an outer chunk around the sub-chunks
InitLoop ==
    /\ debug_assertions \in BOOLEAN
    /\ version \in TableVersions \cup {"V1"}
    /\ \E kinds \in LoopSeqs :
           IF version = "V1"
           THEN data = Zeros(PropertiesV1Start) \o SubsBytes(version, kinds)
           ELSE \E typecode \in {SETTINGS_TABLE, PROPERTIES_TABLE} :
                    data = TableBytes(version, typecode, SubsBytes(version, kinds))
    /\ position = 0
    /\ chunk_begin = NoBegin
    /\ chunks = <<>>
    /\ ret = NoTRet
    /\ pc = "table"
    /\ ops = 0

\* the deserializer between two steps of a table decoder
LoopReader == [TheReader EXCEPT !.table = ret.table, !.subs = ret.subs]

\* a step of a table decoder has left r; pre is where the step started
LoopStep(record, fails, r, to) ==
    /\ position' = r.m.pos
    /\ version' = r.m.ver
    /\ chunk_begin' = r.m.cb
    /\ chunks' = r.m.cs
    /\ ret' = [op |-> "loop", record |-> record, kind |-> r.kind, err |-> r.err,
               pre |-> position, table |-> r.m.table, subs |-> r.m.subs, fails |-> fails,
               open |-> Len(r.m.cs)]
    /\ pc' = to
    /\ UNCHANGED <<debug_assertions, data, ops>>

\* Settings::deserialize or Properties::deserialize up to its loop
LoopEnter ==
    /\ pc = "table"
    /\ \E record \in LoopRecords, fails \in BOOLEAN :
       \E r \in {OpenTable(TheReader, record)} :
           LoopStep(record, fails, r, IF r.kind = "Continue" THEN "loop" ELSE "done")

\* one iteration of loop { ... }
LoopIterate ==
    /\ pc = "loop"
    /\ \E r \in {Iteration(LoopReader, FieldsOf(ret.record, version),
                            SkipsUnknown(ret.record), ret.fails)} :
           LoopStep(ret.record, ret.fails, r,
                    CASE r.kind = "Continue" -> "loop"
                      [] r.kind = "Ok" /\ InOuterChunk(ret.record, version) -> "close"
                      [] OTHER -> "done")

\* properties_chunk.seek(SeekFrom::End(1)).unwrap() after the loop
LoopClose ==
    /\ pc = "close"
    /\ \E r \in {SeekEndAndDrop(LoopReader)} : LoopStep(ret.record, ret.fails, r, "done")

NextLoop ==
    \/ LoopEnter
    \/ LoopIterate
    \/ LoopClose

\* a decoder that has not returned takes its next step
SpecLoop == InitLoop /\ [][NextLoop]_vars /\ WF_vars(NextLoop)

\* C30: table decoding terminates on a finite byte source: an iteration of the loop
\* that does not end the loop leaves the byte source strictly further forward than
\* where it started, the headers of the sub-chunks opened so far fit in the byte
\* source, and a decoder that has started returns
C30_Terminates ==
    /\ [][pc = "loop" /\ pc' = "loop" => position' > position]_vars
    /\ [](ret.op = "loop" => Len(ret.subs) * HeaderSize <= Len(data))
    /\ (pc = "table" ~> pc = "done")

\* a loop after two iterations that did not end it, the second one on a sub-chunk
\* whose typecode the table skips
C30_Witness ==
    /\ ret.op = "loop"
    /\ pc = "loop"
    /\ Len(ret.subs) = 2
    /\ ret.subs[2].typecode = UNKNOWN
    /\ ret.subs[2].at > ret.subs[1].at
    /\ position > ret.pre

=============================================================================
